---- MODULE Spec2Model ----
(***************************************************************************)
(* Upload orchestration of the meme-photo extension's background worker:   *)
(* the serialized continuation chain (uploadQueue), handleImageUpload with *)
(* its per-phase refresh-and-replay on HTTP 401, album resolution, the     *)
(* history append and the toast relay.                                     *)
(*                                                                         *)
(* One job is one context-menu click.  Jobs are numbered in the order the  *)
(* clicks arrive; pc[j] names the await at which job j is suspended.       *)
(***************************************************************************)
EXTENDS Integers, Sequences, FiniteSets, TLC

\* ---------------------------------------------------------------- bounds
MaxJobs == 2
MaxTokens == 2

Jobs == 1..MaxJobs
Tokens == 1..MaxTokens

\* ------------------------------------------------------------- constants
\* A click comes with a tab that has an id, or without one; nothing is keyed
\* by the id, so one id stands for every tab.
TabId == 1
NoTab == 0
NoToken == 0
NoAlbum == "null"
AppAlbumId == "album-meme-photo"
StaleAlbumId == "album-other"
AlbumIds == {AppAlbumId, StaleAlbumId}
MAX_RECORDS == 50
MAX_CACHE_SIZE == 100
CACHE_EXPIRY_MS == 7 * 24 * 60 * 60 * 1000

\* No image locator.
NoUrl == [valid |-> FALSE, scheme |-> "", host |-> [kind |-> "none"]]

\* fetch() either rejects (FetchRejected) or resolves with a status.
FetchRejected == 0
HttpResponses == {200, 401, 429, 500, FetchRejected}

\* What downloadImage can hand back for job j's image: the blob's type, and
\* the filename taken from the URL or generated from the type.
DownloadResults(j) ==
  { [type |-> "image/jpeg", filename |-> "meme-" \o ToString(j) \o ".jpg"],
    [type |-> "image/png", filename |-> "meme-photo-" \o ToString(j) \o ".png"] }

\* ---------------------------------------------------------------- errors
NoError == [name |-> "none", message |-> "", expiredToken |-> NoToken]

Err(msg) == [name |-> "Error", message |-> msg, expiredToken |-> NoToken]

TokenExpiredError(expiredToken) ==
  [name |-> "TokenExpiredError", message |-> "AUTH_TOKEN_EXPIRED",
   expiredToken |-> expiredToken]

QuotaExceededMessage ==
  "Daily upload limit reached. Please try again tomorrow. (Google Photos API: 10,000 requests/day)"

QuotaExceededError ==
  [name |-> "QuotaExceededError", message |-> QuotaExceededMessage,
   expiredToken |-> NoToken]

AuthFailedMessage ==
  "Failed to obtain OAuth token. Please re-authorize the extension."

RefreshFailedMessage ==
  "Failed to refresh OAuth token. Please re-authorize the extension."

DownloadFailedMessage ==
  "Failed to download image: CORS restriction or network error. The image server may not allow cross-origin requests."

FetchFailedMessage == "Failed to fetch"

StorageFailedMessage == "storage error"

\* ----------------------------------------------------------------- state
VARIABLES
  uploadQueue,          \* the chain's tail promise: 0 is Promise.resolve(), j is job j's link
  prev,                 \* prev[j]: the promise job j's .then() was attached to
  link,                 \* link[j]: state of the promise .then().catch().finally() of job j
  pc,                   \* pc[j]: where job j is
  loc,                  \* loc[j]: the locals of handleImageUpload for job j
  calls,                \* calls[j]: the calls job j has made so far, in order
  toasts,               \* toasts[j]: messages delivered to the tab's content script for job j
  started,              \* jobs in the order handleImageUpload was entered
  outcome,              \* outcome[j]: "Done" / "Failed" once job j has ended
  cachedAuthToken,      \* the token chrome.identity caches
  minted,               \* how many distinct tokens the identity service has issued
  selectedAlbumId,      \* chrome.storage.sync selectedAlbumId
  uploadHistory,        \* chrome.storage.local uploadHistory, newest first
  isManuallyLoggedOut,  \* chrome.storage.local isManuallyLoggedOut
  cached,               \* the cache keys present in chrome.storage.local
  app,                  \* the popup's App component: its handler's position and its state
  silentRequests,       \* the non-interactive token requests made so far
  panel,                \* the popup's history panel: where its delete handler is
  thumbnailCache,       \* chrome.storage.local thumbnailCache: its entries in key order
  albumCache,           \* chrome.storage.local albumCache: its entries in key order
  now,                  \* what Date.now() returns
  viewer,               \* viewer[v]: where surface v's getThumbnailDataUrl call is
  titles,               \* where the album-title call under way is
  putAt,                \* when each thumbnail, and the album title, was last stored by a put
  surface,              \* surface[s]: the UploadHistory component of surface s
  image,                \* the image stripExifMetadata is given, and what it returns
  credential,           \* where a getAuthToken call is, and what it was answered
  display,              \* the toasts of the tab's content script, and its timers
  aggregator            \* the thumbnail error aggregator of one page

\* The caches, the clock and the components that read through the caches.
cacheVars ==
  << thumbnailCache, albumCache, now, viewer, titles, putAt, image, credential, display, aggregator >>

viewVars == << cacheVars, surface >>

authVars == << isManuallyLoggedOut, cached, app, silentRequests, panel, viewVars >>

vars ==
  << uploadQueue, prev, link, pc, loc, calls, toasts, started, outcome, cachedAuthToken, minted, selectedAlbumId, uploadHistory,
     isManuallyLoggedOut, cached, app, silentRequests, panel,
     thumbnailCache, albumCache, now, viewer, titles, putAt, surface, image,
     credential, display, aggregator >>

\* The caches the popup and its components keep in chrome.storage.local.
CacheKeys == {"userProfile", "thumbnailCache", "albumCache"}

\* App before its first effect has run.
InitApp == [pc |-> "unmounted", isAuthorized |-> FALSE, token |-> NoToken]

\* The history panel with no delete under way.
InitPanel == [pc |-> "idle", id |-> 0, updated |-> << >>, success |-> FALSE]

\* deleteUploadRecord(id) has returned success to handleDelete.
DeleteReturned(id, success) ==
  [pc |-> "deleteReturned", id |-> id, updated |-> << >>, success |-> success]

AfterDelete(shown, id, success) ==
  IF shown THEN DeleteReturned(id, success) ELSE InitPanel

\* The surfaces that show the history with its thumbnails.
Surfaces == {"popup", "sidePanel"}

\* The thumbnails the surfaces ask for: the newest stored one and two more.
ThumbKeys == {MAX_CACHE_SIZE, MAX_CACHE_SIZE + 1}

\* The instant of the first step; the stored entries are older.
Origin == MAX_CACHE_SIZE + 1

Never == 0 - 1

\* No getAuthToken call under way.
NoCredential ==
  [ pc |-> "none", worker |-> "", token |-> NoToken, asked |-> << >>,
    reported |-> "none", expires_in |-> << >>, removed |-> {}, result |-> NoToken,
    sent |-> {} ]

\* No toast in the tab, no timer of its content script pending, and the
\* worker between two jobs.
NoDisplay ==
  [ worker |-> "idle", job |-> 0, made |-> 0, elements |-> {}, timers |-> {},
    shown |-> FALSE, lost |-> FALSE ]

\* The aggregator as its module is loaded, in a page whose history
\* component is mounted and shows no toast: errorCount and debounceTimer,
\* with the deadline of the pending timer; the page's clock, the toast
\* container, the instants of the reportThumbnailError calls, the showToast
\* calls and the instant of the cleanup.
NoAggregator ==
  [ errorCount |-> 0, debounceTimer |-> 0 - 1, clock |-> 0, mounted |-> TRUE,
    container |-> << >>, reports |-> << >>, shown |-> << >>, cleanedAt |-> 0 - 1 ]

\* No image is being processed.
NoImage ==
  [pc |-> "none", parts |-> << >>, blob |-> [type |-> "", data |-> << >>],
   processedBlob |-> [type |-> "", data |-> << >>], raised |-> FALSE, date |-> 0]

\* A surface that is not open: no component, no listener.
Closed == [pc |-> "closed", history |-> << >>, records |-> << >>, inbox |-> << >>]

\* chrome.storage.onChanged: every surface with a listener is sent the new
\* value of uploadHistory when a write has changed it.
OnChanged(oldValue, newValue) ==
  [s \in Surfaces |->
     IF surface[s].pc # "closed" /\ newValue # oldValue
       THEN [surface[s] EXCEPT !.inbox = Append(@, newValue)]
       ELSE surface[s]]

\* No getThumbnailDataUrl call under way.
InitViewer ==
  [pc |-> "idle", key |-> 0, cache |-> << >>, found |-> "none", got |-> "none", at |-> 0]

\* No album-title call under way.
InitTitles == [pc |-> "idle", cache |-> << >>, found |-> "none", got |-> "none", at |-> 0]

\* Empty caches and no call under way.
ViewAtRest ==
  /\ thumbnailCache = << >>
  /\ albumCache = << >>
  /\ now = Origin
  /\ viewer = [v \in Surfaces |-> InitViewer]
  /\ titles = InitTitles
  /\ putAt = [thumbnail |-> [k \in ThumbKeys |-> Never], album |-> Never]
  /\ surface = [s \in Surfaces |-> Closed]
  /\ image = NoImage
  /\ credential = NoCredential
  /\ display = NoDisplay
  /\ aggregator = NoAggregator

\* A chrome.identity.getAuthToken({ interactive: false }) call, with the
\* value isManuallyLoggedOut has when it is made.
SilentRequest(by) == [by |-> by, loggedOut |-> isManuallyLoggedOut]

InitLoc ==
  [ tab |-> NoTab, imageUrl |-> NoUrl,
    token |-> NoToken, blobType |-> "", filename |-> "",
    processedBlob |-> "", uploadToken |-> 0, albumId |-> NoAlbum,
    mediaItemId |-> 0, error |-> NoError, keepAliveInterval |-> FALSE,
    history |-> <<>> ]

Init ==
  /\ uploadQueue = 0
  /\ prev = [j \in Jobs |-> 0]
  /\ link = [j \in Jobs |-> "pending"]
  /\ pc = [j \in Jobs |-> "idle"]
  /\ loc = [j \in Jobs |-> InitLoc]
  /\ calls = [j \in Jobs |-> <<>>]
  /\ toasts = [j \in Jobs |-> <<>>]
  /\ started = <<>>
  /\ outcome = [j \in Jobs |-> "none"]
  /\ cachedAuthToken = NoToken
  /\ minted = 0
  /\ selectedAlbumId \in AlbumIds \cup {NoAlbum}
  /\ uploadHistory = <<>>
  /\ isManuallyLoggedOut = FALSE
  /\ cached = {}
  /\ app = InitApp
  /\ silentRequests = {}
  /\ panel = InitPanel
  /\ ViewAtRest

\* ------------------------------------------------------------ the chain
PromiseState(p) == IF p = 0 THEN "fulfilled" ELSE link[p]

\* Variant: the continuation hangs on an already resolved promise.
ChainOnResolved(tail) == 0

\* uploadQueue.then(...): the continuation hangs on the current tail.
ChainOn(tail) == tail

\* Variant: the new link is not stored back into uploadQueue.
StaleTail(tail, j) == tail

\* uploadQueue = ...: the new link becomes the tail.
NewTail(tail, j) == j

\* The click listener's guard.
IsUploadClick(menuItemId, hasSrcUrl) ==
  menuItemId = "upload-to-google-photos" /\ hasSrcUrl

\* What a call hands back: a value, or a thrown error.
Returned(v) == [ok |-> TRUE, value |-> v, error |-> NoError]

Threw(e) == [ok |-> FALSE, value |-> 0, error |-> e]

\* One entry of calls[j]: the step, how it ended, and what it was given.
Call(step, r) ==
  [ step |-> step, thrown |-> r.error.name, message |-> r.error.message,
    result |-> r.value,
    token |-> NoToken, uploadToken |-> 0, filename |-> "", albumId |-> NoAlbum,
    status |-> 0, body |-> "", fetched |-> FALSE, size |-> 0 ]

Log(j, c) == [calls EXCEPT ![j] = Append(@, c)]

Goto(j, label) == [pc EXCEPT ![j] = label]

\* chrome.contextMenus.onClicked, with info.srcUrl one of srcUrls when the
\* click has one.
Clicked(j, srcUrls) ==
  \E menuItemId \in {"upload-to-google-photos", "other"}, hasSrcUrl \in BOOLEAN,
     tab \in {TabId, NoTab}, srcUrl \in srcUrls :
    /\ pc[j] = "idle"
    /\ \A i \in Jobs : i < j => pc[i] # "idle"
    /\ IF IsUploadClick(menuItemId, hasSrcUrl)
         THEN /\ prev' = [prev EXCEPT ![j] = ChainOn(uploadQueue)]
              /\ uploadQueue' = NewTail(uploadQueue, j)
              /\ loc' = [loc EXCEPT ![j].tab = tab, ![j].imageUrl = srcUrl]
              /\ pc' = Goto(j, "queued")
         ELSE UNCHANGED << prev, uploadQueue, loc, pc >>
    /\ UNCHANGED << link, calls, toasts, started, outcome, cachedAuthToken, minted, selectedAlbumId, uploadHistory >>
    /\ UNCHANGED authVars

\* ------------------------------------------------------------ toast relay
\* toasts[j] lists the relay's calls for job j, each with whether its message
\* reached the content script.
\* How a showToastInTab call can go: the message reaches the content script,
\* the tab's URL is restricted, or tabs.get, insertCSS, executeScript or
\* sendMessage rejects.
ShowToastOutcomes == {"shown", "restricted", "rejected"}

\* showToastInTab: a restricted URL returns early and every rejection is
\* caught inside, so the caller never sees a failure.
ShowToastInTab(j, tabId, type, message, o) ==
  toasts' = [toasts EXCEPT ![j] =
               Append(@, [action |-> "showToast", tab |-> tabId, type |-> type,
                          message |-> message, delivered |-> (o = "shown")])]

\* dismissToastInTab: a lost message is ignored.
DismissToastInTab(j, delivered) ==
  toasts' = [toasts EXCEPT ![j] =
               Append(@, [action |-> "dismissToast", tab |-> loc[j].tab, type |-> "loading",
                          message |-> "", delivered |-> delivered])]

\* ------------------------------------------------- handleImageUpload: entry
\* A throw inside the try block lands in the catch block, which awaits the
\* dismissal of the loading toast when there is a tab and then rethrows;
\* the finally block clears the keep-alive interval.
\* Variant: the interval is not cleared.
IntervalLeftRunning(active) == active

\* finally { clearInterval(keepAliveInterval) }
ClearInterval(active) == FALSE

Thrown(l, e) ==
  [l EXCEPT !.error = e,
            !.keepAliveInterval = IF l.tab # NoTab THEN @ ELSE ClearInterval(@)]

CatchLabel(l) == IF l.tab # NoTab THEN "dismissOnError" ELSE "rejected"

Raise(j, l, e) ==
  /\ loc' = [loc EXCEPT ![j] = Thrown(l, e)]
  /\ pc' = Goto(j, CatchLabel(l))
  /\ outcome' = IF l.tab # NoTab THEN outcome ELSE [outcome EXCEPT ![j] = "Failed"]

\* The .then() continuation of job j runs once the promise it hangs on has
\* settled: fulfilled, it enters handleImageUpload; rejected, it is skipped
\* and the rejection goes to job j's own .catch().
Start(j) ==
  /\ pc[j] = "queued"
  /\ PromiseState(prev[j]) # "pending"
  /\ IF PromiseState(prev[j]) = "fulfilled"
       THEN /\ started' = Append(started, j)
            /\ loc' = [loc EXCEPT ![j].keepAliveInterval = TRUE]
            /\ pc' = Goto(j, IF loc[j].tab # NoTab THEN "showLoading" ELSE "getAuthToken")
            /\ outcome' = outcome
       ELSE /\ started' = started
            /\ loc' = [loc EXCEPT ![j].error = loc[prev[j]].error]
            /\ pc' = Goto(j, "rejected")
            /\ outcome' = [outcome EXCEPT ![j] = "Failed"]
  /\ UNCHANGED << uploadQueue, prev, link, calls, toasts, cachedAuthToken, minted, selectedAlbumId, uploadHistory >>
  /\ UNCHANGED authVars

ShowLoading(j) ==
  /\ pc[j] = "showLoading"
  /\ \E o \in ShowToastOutcomes :
       ShowToastInTab(j, loc[j].tab, "loading", "Uploading to Google Photos...", o)
  /\ pc' = Goto(j, "getAuthToken")
  /\ UNCHANGED << uploadQueue, prev, link, loc, calls, started, outcome,
                  cachedAuthToken, minted, selectedAlbumId, uploadHistory >>
  /\ UNCHANGED authVars

\* ------------------------------------------------------------ credential
\* What chrome.identity.getAuthToken({interactive: false}) can resolve with:
\* the cached token when there is one.
\* The token the identity service issues next: a fresh one, or, once
\* MaxTokens have been issued, the last one again.
Mint == IF minted < MaxTokens THEN minted + 1 ELSE MaxTokens

Minted(t) == IF t > minted THEN t ELSE minted

SilentResults ==
  (IF cachedAuthToken # NoToken THEN {cachedAuthToken} ELSE {Mint}) \cup {NoToken}

InteractiveResults == {Mint, NoToken}

\* getAuthToken, first await: the silent request.  A rejection is caught and
\* makes getAuthToken return null, which handleImageUpload turns into a throw.
GetAuthTokenSilent(j) ==
  /\ pc[j] = "getAuthToken"
  /\ \E rejects \in BOOLEAN, t \in SilentResults :
       IF rejects
         THEN /\ Raise(j, loc[j], Err(AuthFailedMessage))
              /\ calls' = Log(j, Call("getAuthToken", Threw(Err(AuthFailedMessage))))
              /\ UNCHANGED << cachedAuthToken, minted >>
         ELSE IF t # NoToken
           THEN /\ loc' = [loc EXCEPT ![j].token = t]
                /\ pc' = Goto(j, "downloadImage")
                /\ calls' = Log(j, Call("getAuthToken", Returned(t)))
                /\ cachedAuthToken' = t
                /\ minted' = Minted(t)
                /\ UNCHANGED outcome
           ELSE /\ pc' = Goto(j, "getAuthTokenInteractive")
                /\ UNCHANGED << loc, calls, cachedAuthToken, minted, outcome >>
  /\ UNCHANGED << uploadQueue, prev, link, toasts, started, selectedAlbumId, uploadHistory >>
  /\ UNCHANGED << isManuallyLoggedOut, cached, app, panel, viewVars >>
  /\ silentRequests' = silentRequests \cup {SilentRequest("getAuthToken")}

\* getAuthToken, second await: the interactive request.
GetAuthTokenInteractive(j) ==
  /\ pc[j] = "getAuthTokenInteractive"
  /\ \E rejects \in BOOLEAN, t \in InteractiveResults :
       IF rejects \/ t = NoToken
         THEN /\ Raise(j, loc[j], Err(AuthFailedMessage))
              /\ calls' = Log(j, Call("getAuthToken", Threw(Err(AuthFailedMessage))))
              /\ UNCHANGED << cachedAuthToken, minted >>
         ELSE /\ loc' = [loc EXCEPT ![j].token = t]
              /\ pc' = Goto(j, "downloadImage")
              /\ calls' = Log(j, Call("getAuthToken", Returned(t)))
              /\ cachedAuthToken' = t
              /\ minted' = Minted(t)
              /\ UNCHANGED outcome
  /\ UNCHANGED << uploadQueue, prev, link, toasts, started, selectedAlbumId, uploadHistory >>
  /\ UNCHANGED authVars

\* ------------------------------------------------------ the image locator
\* Text is a sequence of one-character strings.
UpperCase ==
  << "A", "B", "C", "D", "E", "F", "G", "H", "I", "J", "K", "L", "M",
     "N", "O", "P", "Q", "R", "S", "T", "U", "V", "W", "X", "Y", "Z" >>

LowerCase ==
  << "a", "b", "c", "d", "e", "f", "g", "h", "i", "j", "k", "l", "m",
     "n", "o", "p", "q", "r", "s", "t", "u", "v", "w", "x", "y", "z" >>

DigitChars == << "0", "1", "2", "3", "4", "5", "6", "7", "8", "9" >>

ToLowerChar(c) ==
  IF \E i \in DOMAIN UpperCase : UpperCase[i] = c
    THEN LowerCase[CHOOSE i \in DOMAIN UpperCase : UpperCase[i] = c]
    ELSE c

\* String.prototype.toLowerCase
ToLowerCase(s) == [i \in DOMAIN s |-> ToLowerChar(s[i])]

\* String.prototype.startsWith
StartsWith(s, p) == Len(s) >= Len(p) /\ SubSeq(s, 1, Len(p)) = p

\* String.prototype.includes, for one character
Includes(s, c) == \E i \in DOMAIN s : s[i] = c

IsDigit(c) == \E d \in DOMAIN DigitChars : DigitChars[d] = c

DigitValue(c) == (CHOOSE d \in DOMAIN DigitChars : DigitChars[d] = c) - 1

\* Number("172") = 172
RECURSIVE Number(_)
Number(s) ==
  IF s = << >> THEN 0
  ELSE 10 * Number(SubSeq(s, 1, Len(s) - 1)) + DigitValue(s[Len(s)])

\* The decimal digits of n.
RECURSIVE Decimal(_)
Decimal(n) ==
  IF n < 10 THEN << DigitChars[n + 1] >>
  ELSE Decimal(n \div 10) \o << DigitChars[(n % 10) + 1] >>

\* The parts of s between the dots.
RECURSIVE SplitAtDots(_)
SplitAtDots(s) ==
  IF ~Includes(s, ".") THEN << s >>
  ELSE LET i == CHOOSE k \in DOMAIN s : s[k] = "." /\ \A m \in 1..(k - 1) : s[m] # "."
       IN << SubSeq(s, 1, i - 1) >> \o SplitAtDots(SubSeq(s, i + 1, Len(s)))

\* hostname.match(/^(\d{1,3})\.(\d{1,3})\.(\d{1,3})\.(\d{1,3})$/): the four
\* captured groups, or the empty sequence for no match.
Ipv4Match(hostname) ==
  LET parts == SplitAtDots(hostname)
  IN IF /\ Len(parts) = 4
        /\ \A k \in 1..4 :
             /\ Len(parts[k]) \in 1..3
             /\ \A i \in DOMAIN parts[k] : IsDigit(parts[k][i])
       THEN parts
       ELSE << >>

\* isInternalIP(hostname)
isInternalIP(hostname) ==
  LET lower == ToLowerCase(hostname)
      m == Ipv4Match(hostname)
      a == Number(m[1])
      b == Number(m[2])
  IN IF lower = << "l", "o", "c", "a", "l", "h", "o", "s", "t" >> THEN TRUE
     ELSE IF m # << >>
       THEN IF \E k \in 1..4 : Number(m[k]) > 255 THEN FALSE
            ELSE \/ a = 127
                 \/ a = 10
                 \/ a = 172 /\ b >= 16 /\ b <= 31
                 \/ a = 192 /\ b = 168
                 \/ a = 169 /\ b = 254
                 \/ a = 100 /\ b >= 64 /\ b <= 127
     ELSE \/ lower = << ":", ":", "1" >>
          \/ lower = << "0", ":", "0", ":", "0", ":", "0", ":", "0", ":", "0", ":", "0", ":", "1" >>
          \/ StartsWith(lower, << "f", "e", "8", "0", ":" >>)
          \/ StartsWith(lower, << "f", "e", "8", "0", ":", ":" >>)
          \/ Includes(lower, ":") /\ (StartsWith(lower, << "f", "c" >>)
                                       \/ StartsWith(lower, << "f", "d" >>))

\* An image locator: whether the URL parser accepts it, its scheme, and its
\* host, which is a domain name as written, an IPv4 address (in whatever
\* notation, given by its four octets) or an IPv6 address literal (given by
\* its compressed lower-case text).

Domain(text) == [kind |-> "domain", text |-> text]

Ipv4(a, b, c, d) == [kind |-> "ipv4", octets |-> << a, b, c, d >>]

Ipv6(text) == [kind |-> "ipv6", text |-> text]

Url(scheme, host) == [valid |-> TRUE, scheme |-> scheme, host |-> host]

\* new URL(imageUrl).protocol
URLProtocol(url) == url.scheme \o ":"

\* new URL(imageUrl).hostname: a domain in lower case, an IPv4 address as
\* four decimal octets, an IPv6 address in square brackets.
URLHostname(url) ==
  CASE url.host.kind = "domain" -> ToLowerCase(url.host.text)
    [] url.host.kind = "ipv4" ->
         Decimal(url.host.octets[1]) \o << "." >> \o Decimal(url.host.octets[2]) \o << "." >>
           \o Decimal(url.host.octets[3]) \o << "." >> \o Decimal(url.host.octets[4])
    [] url.host.kind = "ipv6" -> << "[" >> \o url.host.text \o << "]" >>
    [] OTHER -> << >>

\* Variant: plain http is let through as well.
AnyWebProtocol(protocol) == protocol \in {"https:", "http:"}

\* url.protocol !== "https:" throws
ProtocolAllowed(protocol) == protocol = "https:"

InvalidUrlMessage == "Invalid URL format"

UnsupportedProtocolMessage(protocol) ==
  "Unsupported protocol: " \o protocol \o ". Only HTTPS URLs are supported for security."

InternalAddressMessage ==
  "Access to internal/private IP addresses is not allowed for security reasons."

\* The first try block of downloadImage: what it throws, or NoError.
ValidateUrl(url) ==
  IF ~url.valid THEN Err(InvalidUrlMessage)
  ELSE IF ~ProtocolAllowed(URLProtocol(url))
    THEN Err(UnsupportedProtocolMessage(URLProtocol(url)))
  ELSE IF isInternalIP(URLHostname(url)) THEN Err(InternalAddressMessage)
  ELSE NoError

MAX_FILE_SIZE == 200 * 1024 * 1024

validTypes ==
  { "image/jpeg", "image/png", "image/gif", "image/bmp", "image/tiff",
    "image/webp", "image/heic", "image/avif", "image/x-icon" }

SizeExceededMessage == "Image size exceeds 200MB limit"

NoContentTypeMessage ==
  "Unable to determine image format. The image server may have incorrect configuration. Try saving the image to your device first, then upload to Google Photos manually."

UnsupportedFormatMessage(type) ==
  "Unsupported image format: " \o type \o ". Supported formats: JPEG, PNG, GIF, BMP, TIFF, WebP, HEIC, AVIF."

\* Variant: a blob of exactly the limit is rejected too.
SizeAtOrOverLimit(size) == size >= MAX_FILE_SIZE

\* blob.size > MAX_FILE_SIZE
SizeOverLimit(size) == size > MAX_FILE_SIZE

\* What fetch(imageUrl) and response.blob() can give: a rejection with a
\* TypeError or another error, or a response with its ok flag, and the
\* blob's size and type.
FetchResult(fetch, ok, size, type) ==
  [fetch |-> fetch, ok |-> ok, size |-> size, type |-> type]

\* downloadImage after the URL has passed: what it throws, or NoError.
ValidateResponse(response) ==
  IF response.fetch = "TypeError" THEN Err(DownloadFailedMessage)
  ELSE IF response.fetch = "Error" THEN Err("Failed to download image: aborted")
  ELSE IF ~response.ok THEN Err("Failed to download image: 404 Not Found")
  ELSE IF SizeOverLimit(response.size) THEN Err(SizeExceededMessage)
  ELSE IF response.type \notin validTypes
    THEN IF response.type = "" THEN Err(NoContentTypeMessage)
         ELSE Err(UnsupportedFormatMessage(response.type))
  ELSE NoError

\* The locators and responses of the upload jobs: one public https locator;
\* the download fails in the network or delivers a JPEG or a PNG.
PublicHost == Domain(<< "e", "x", "a", "m", "p", "l", "e", ".", "c", "o", "m" >>)

SrcUrls == { Url("https", PublicHost) }

Responses ==
  { FetchResult("TypeError", FALSE, 0, "") } \cup
  { FetchResult("response", TRUE, MAX_FILE_SIZE, type) : type \in {"image/jpeg", "image/png"} }

\* downloadImage: either a validated blob with its filename, or a throw.
\* The URL is checked first and nothing is fetched when it fails; then the
\* response is checked.  imageUrl is not read again after the download.
downloadImage(imageUrl, response) ==
  IF ValidateUrl(imageUrl) # NoError THEN Threw(ValidateUrl(imageUrl))
  ELSE IF ValidateResponse(response) # NoError THEN Threw(ValidateResponse(response))
  ELSE Returned(0)

\* The fetch is issued once the URL has passed.
FetchIssued(imageUrl) == ValidateUrl(imageUrl) = NoError

\* blob.size is read when the response is ok.
SizeRead(imageUrl, response) ==
  IF FetchIssued(imageUrl) /\ response.fetch = "response" /\ response.ok
    THEN response.size ELSE 0

Download(j, responses) ==
  /\ pc[j] = "downloadImage"
  /\ \E response \in responses :
       LET imageUrl == loc[j].imageUrl
           r == downloadImage(imageUrl, response)
       IN /\ calls' = Log(j, [Call("downloadImage", r) EXCEPT
                                !.fetched = FetchIssued(imageUrl),
                                !.size = SizeRead(imageUrl, response)])
          /\ IF r.ok
               THEN /\ \E d \in DownloadResults(j) :
                         /\ d.type = response.type
                         /\ loc' = [loc EXCEPT ![j].blobType = d.type,
                                               ![j].filename = d.filename,
                                               ![j].imageUrl = NoUrl]
                    /\ pc' = Goto(j, "stripExifMetadata")
                    /\ UNCHANGED outcome
               ELSE Raise(j, loc[j], r.error)
  /\ UNCHANGED << uploadQueue, prev, link, toasts, started, cachedAuthToken, minted, selectedAlbumId, uploadHistory >>
  /\ UNCHANGED authVars

OnClicked(j) == Clicked(j, SrcUrls)

DownloadImage(j) == Download(j, Responses)

\* stripExifMetadata: JPEG is rewritten, a failed rewrite and every other
\* type hand the original blob on.
StripResult(blobType, rewriteThrows) ==
  IF blobType = "image/jpeg" /\ ~rewriteThrows THEN "rewritten" ELSE "original"

StripExifMetadata(j) ==
  /\ pc[j] = "stripExifMetadata"
  /\ \E rewriteThrows \in BOOLEAN :
       loc' = [loc EXCEPT ![j].processedBlob = StripResult(loc[j].blobType, rewriteThrows)]
  /\ pc' = Goto(j, "uploadImageBytes")
  /\ calls' = Log(j, Call("stripExifMetadata", Returned(0)))
  /\ UNCHANGED << uploadQueue, prev, link, toasts, started, outcome, cachedAuthToken, minted, selectedAlbumId, uploadHistory >>
  /\ UNCHANGED authVars

\* ---------------------------------------------------------------- phase A
ResponseOk(status) == status >= 200 /\ status <= 299

\* uploadImageBytes: POST /v1/uploads; uploadToken is the response text.
uploadImageBytes(token, status, uploadToken) ==
  IF status = FetchRejected THEN Threw(Err(FetchFailedMessage))
  ELSE IF status = 429 THEN Threw(QuotaExceededError)
  ELSE IF status = 401 THEN Threw(TokenExpiredError(token))
  ELSE IF ~ResponseOk(status) THEN Threw(Err("Upload failed with status " \o ToString(status)))
  ELSE Returned(uploadToken)

\* Variant: a quota error is retried like an expired token.
RetriesOnQuotaToo(e) == e.name \in {"TokenExpiredError", "QuotaExceededError"}

\* The catch around a phase's first attempt refreshes on TokenExpiredError
\* and rethrows everything else.
RetriesOn(e) == e.name = "TokenExpiredError"

\* Variant: the catch swallows what it does not retry and the job goes on.
PhaseACatchSwallows(j, e) ==
  /\ loc' = [loc EXCEPT ![j].error = IF RetriesOn(e) THEN e ELSE NoError]
  /\ pc' = Goto(j, IF RetriesOn(e) THEN "refreshTokenA" ELSE "albumGet")
  /\ UNCHANGED outcome

\* The catch around phase A's first attempt: refresh on TokenExpiredError,
\* rethrow everything else.
PhaseACatch(j, e) ==
  IF RetriesOn(e)
    THEN /\ loc' = [loc EXCEPT ![j].error = e]
         /\ pc' = Goto(j, "refreshTokenA")
         /\ UNCHANGED outcome
    ELSE Raise(j, loc[j], e)

\* The catch around phase B's first attempt.
PhaseBCatch(j, e) ==
  IF RetriesOn(e)
    THEN /\ loc' = [loc EXCEPT ![j].error = e]
         /\ pc' = Goto(j, "refreshTokenB")
         /\ UNCHANGED outcome
    ELSE Raise(j, loc[j], e)

\* Variant: the refreshed token is not assigned.
KeptToken(old, new) == old

\* token = await refreshToken(...): the job goes on with the new token.
RefreshedToken(old, new) == new

\* refreshToken: removeCachedAuthToken, then an interactive getAuthToken.
CacheAfterRemove(expiredToken) ==
  IF cachedAuthToken = expiredToken THEN NoToken ELSE cachedAuthToken

refreshToken(expiredToken, removeRejects, rejects, t) ==
  IF removeRejects \/ rejects THEN Threw(Err("identity error"))
  ELSE IF t = NoToken THEN Threw(Err(RefreshFailedMessage))
  ELSE Returned(t)

RefreshStep(j, from, to) ==
  /\ pc[j] = from
  /\ \E removeRejects \in BOOLEAN, rejects \in BOOLEAN, t \in InteractiveResults :
       LET expired == loc[j].error.expiredToken
           r == refreshToken(expired, removeRejects, rejects, t)
       IN /\ calls' = Log(j, [Call("refreshToken", r) EXCEPT !.token = expired])
          /\ cachedAuthToken' =
               IF removeRejects THEN cachedAuthToken
               ELSE IF r.ok THEN r.value
               ELSE CacheAfterRemove(expired)
          /\ minted' = IF r.ok THEN Minted(r.value) ELSE minted
          /\ IF r.ok
               THEN /\ loc' = [loc EXCEPT ![j].token = RefreshedToken(@, r.value),
                                           ![j].error = NoError]
                    /\ pc' = Goto(j, to)
                    /\ UNCHANGED outcome
               ELSE Raise(j, loc[j], r.error)
  /\ UNCHANGED << uploadQueue, prev, link, toasts, started, selectedAlbumId, uploadHistory >>
  /\ UNCHANGED authVars

\* The first attempt of phase A.
UploadBytes(j) ==
  /\ pc[j] = "uploadImageBytes"
  /\ \E status \in HttpResponses :
       LET r == uploadImageBytes(loc[j].token, status, j)
       IN /\ calls' = Log(j, [Call("uploadImageBytes", r) EXCEPT
                             !.token = loc[j].token, !.status = status])
          /\ IF r.ok
               THEN /\ loc' = [loc EXCEPT ![j].uploadToken = r.value]
                    /\ pc' = Goto(j, "albumGet")
                    /\ UNCHANGED outcome
               ELSE PhaseACatch(j, r.error)
  /\ UNCHANGED << uploadQueue, prev, link, toasts, started, cachedAuthToken, minted, selectedAlbumId, uploadHistory >>
  /\ UNCHANGED authVars

\* Variant: the replay goes through the retrying attempt again.
RefreshALoops(j) == RefreshStep(j, "refreshTokenA", "uploadImageBytes")

RefreshA(j) == RefreshStep(j, "refreshTokenA", "uploadImageBytesRetry")

\* The replay of phase A inside the catch: whatever it throws leaves the try.
UploadBytesRetry(j) ==
  /\ pc[j] = "uploadImageBytesRetry"
  /\ \E status \in HttpResponses :
       LET r == uploadImageBytes(loc[j].token, status, j)
       IN /\ calls' = Log(j, [Call("uploadImageBytes", r) EXCEPT
                             !.token = loc[j].token, !.status = status])
          /\ IF r.ok
               THEN /\ loc' = [loc EXCEPT ![j].uploadToken = r.value]
                    /\ pc' = Goto(j, "albumGet")
                    /\ UNCHANGED outcome
               ELSE Raise(j, loc[j], r.error)
  /\ UNCHANGED << uploadQueue, prev, link, toasts, started, cachedAuthToken, minted, selectedAlbumId, uploadHistory >>
  /\ UNCHANGED authVars

\* ------------------------------------------------------- album resolution
\* chrome.storage.sync.get("selectedAlbumId"), outside any try.
AlbumGet(j) ==
  /\ pc[j] = "albumGet"
  /\ \E rejects \in BOOLEAN :
       IF rejects
         THEN /\ Raise(j, loc[j], Err(StorageFailedMessage))
              /\ calls' = Log(j, Call("storage.sync.get", Threw(Err(StorageFailedMessage))))
         ELSE /\ loc' = [loc EXCEPT ![j].albumId = selectedAlbumId]
              /\ pc' = Goto(j, IF selectedAlbumId # NoAlbum
                                 THEN "getOrCreateMemePhotoAlbum" ELSE "createMediaItem")
              /\ calls' = Log(j, [Call("storage.sync.get", Returned(0))
                                     EXCEPT !.albumId = selectedAlbumId])
              /\ UNCHANGED outcome
  /\ UNCHANGED << uploadQueue, prev, link, toasts, started, cachedAuthToken, minted, selectedAlbumId, uploadHistory >>
  /\ UNCHANGED authVars

\* The title of the app's album.
MEME_PHOTO_ALBUM_NAME == "meme-photo"

Album(id, title) == [id |-> id, title |-> title]

\* What listAlbums and createAlbum may do: throw, or return the user's
\* albums (with the app's album among them or not) and the new album.
AlbumLists ==
  { [status |-> s, albums |-> << >>] : s \in {401, 429, 500} } \cup
  { [status |-> 200, albums |-> << >>],
    [status |-> 200, albums |-> << Album(StaleAlbumId, "other") >>],
    [status |-> 200, albums |-> << Album(StaleAlbumId, "other"),
                                  Album(AppAlbumId, MEME_PHOTO_ALBUM_NAME) >>] }

\* The error listAlbums throws on a response that is not ok.
listAlbumsError(status) ==
  IF status = 401 THEN Err("AUTH_TOKEN_EXPIRED")
  ELSE IF status = 403 THEN Err("PERMISSION_DENIED")
  ELSE IF status = 429 THEN Err("QUOTA_EXCEEDED")
  ELSE Err("API_ERROR")

AlbumsCreated == { [ok |-> FALSE, album |-> Album(NoAlbum, "")],
                   [ok |-> TRUE, album |-> Album(AppAlbumId, MEME_PHOTO_ALBUM_NAME)] }

\* Variant: the first listed album is taken, whatever its title.
getOrCreateFirstAlbum(listed, created) ==
  IF ~ResponseOk(listed.status) THEN Threw(listAlbumsError(listed.status))
  ELSE IF listed.albums # << >> THEN Returned(listed.albums[1].id)
  ELSE IF ~created.ok THEN Threw(Err("API_ERROR"))
  ELSE Returned(created.album.id)

\* getOrCreateMemePhotoAlbum: the first listed album with the app's title,
\* else the album createAlbum returns; what either throws is thrown on.
getOrCreateMemePhotoAlbum(listed, created) ==
  LET existing == {i \in DOMAIN listed.albums :
                     listed.albums[i].title = MEME_PHOTO_ALBUM_NAME}
  IN IF ~ResponseOk(listed.status) THEN Threw(listAlbumsError(listed.status))
     ELSE IF existing # {}
       THEN Returned(listed.albums[CHOOSE i \in existing : \A k \in existing : i <= k].id)
     ELSE IF ~created.ok THEN Threw(Err("API_ERROR"))
     ELSE Returned(created.album.id)

\* The call of getOrCreateMemePhotoAlbum in the try: a stored id that is not
\* the app's album's is replaced by it; a throw is turned into "no album".
\* What was thrown only goes to console.error: the log keeps that the call
\* threw, without the message.
AlbumValidate(j) ==
  /\ pc[j] = "getOrCreateMemePhotoAlbum"
  /\ \E listed \in AlbumLists, created \in AlbumsCreated :
       LET memePhotoAlbum == getOrCreateMemePhotoAlbum(listed, created)
       IN /\ calls' = Log(j, [Call("getOrCreateMemePhotoAlbum",
                                    IF memePhotoAlbum.ok THEN Returned(0)
                                    ELSE memePhotoAlbum)
                                 EXCEPT !.token = loc[j].token,
                                        !.message = "",
                                        !.albumId = IF memePhotoAlbum.ok
                                                      THEN memePhotoAlbum.value ELSE NoAlbum])
          /\ IF ~memePhotoAlbum.ok
               THEN /\ loc' = [loc EXCEPT ![j].albumId = NoAlbum]
                    /\ pc' = Goto(j, "albumRemove")
               ELSE IF loc[j].albumId # memePhotoAlbum.value
                 THEN /\ loc' = [loc EXCEPT ![j].albumId = memePhotoAlbum.value]
                      /\ pc' = Goto(j, "albumSet")
                 ELSE /\ pc' = Goto(j, "createMediaItem")
                      /\ UNCHANGED loc
  /\ UNCHANGED << uploadQueue, prev, link, toasts, started, outcome, cachedAuthToken, minted, selectedAlbumId, uploadHistory >>
  /\ UNCHANGED authVars

\* chrome.storage.sync.set inside the try: a rejection falls to the fallback.
AlbumSet(j) ==
  /\ pc[j] = "albumSet"
  /\ \E rejects \in BOOLEAN :
       IF rejects
         THEN /\ loc' = [loc EXCEPT ![j].albumId = NoAlbum]
              /\ pc' = Goto(j, "albumRemove")
              /\ calls' = Log(j, Call("storage.sync.set", Threw(Err(StorageFailedMessage))))
              /\ UNCHANGED selectedAlbumId
         ELSE /\ selectedAlbumId' = loc[j].albumId
              /\ pc' = Goto(j, "createMediaItem")
              /\ calls' = Log(j, Call("storage.sync.set", Returned(0)))
              /\ UNCHANGED loc
  /\ UNCHANGED << uploadQueue, prev, link, toasts, started, outcome, cachedAuthToken, minted, uploadHistory >>
  /\ UNCHANGED authVars

\* chrome.storage.sync.remove inside the catch: a rejection leaves the try.
AlbumRemove(j) ==
  /\ pc[j] = "albumRemove"
  /\ \E rejects \in BOOLEAN :
       IF rejects
         THEN /\ Raise(j, loc[j], Err(StorageFailedMessage))
              /\ calls' = Log(j, Call("storage.sync.remove", Threw(Err(StorageFailedMessage))))
              /\ UNCHANGED selectedAlbumId
         ELSE /\ selectedAlbumId' = NoAlbum
              /\ pc' = Goto(j, "createMediaItem")
              /\ calls' = Log(j, Call("storage.sync.remove", Returned(0)))
              /\ UNCHANGED << loc, outcome >>
  /\ UNCHANGED << uploadQueue, prev, link, toasts, started, cachedAuthToken, minted, uploadHistory >>
  /\ UNCHANGED authVars

\* ---------------------------------------------------------------- phase B
\* Variant: the per-item status of a 2xx response is not looked at.
createMediaItemIgnoresItemStatus(uploadToken, filename, token, albumId, status, body) ==
  IF status = FetchRejected THEN Threw(Err(FetchFailedMessage))
  ELSE IF status = 429 THEN Threw(QuotaExceededError)
  ELSE IF status = 401 THEN Threw(TokenExpiredError(token))
  ELSE IF ~ResponseOk(status)
    THEN Threw(Err("Failed to create media item with status " \o ToString(status)))
  ELSE IF body = "noResults" THEN Threw(Err("No media item created"))
  ELSE Returned(uploadToken)

\* createMediaItem: POST /v1/mediaItems:batchCreate.  body is what a 2xx
\* response carries: a created item, no results, or a per-item error status.
createMediaItem(uploadToken, filename, token, albumId, status, body) ==
  IF status = FetchRejected THEN Threw(Err(FetchFailedMessage))
  ELSE IF status = 429 THEN Threw(QuotaExceededError)
  ELSE IF status = 401 THEN Threw(TokenExpiredError(token))
  ELSE IF ~ResponseOk(status)
    THEN Threw(Err("Failed to create media item with status " \o ToString(status)))
  ELSE IF body = "noResults" THEN Threw(Err("No media item created"))
  ELSE IF body = "itemError" THEN Threw(Err("Media item creation failed: item error"))
  ELSE Returned(uploadToken)

CreateBodies == {"created", "noResults", "itemError"}

CreateCall(l, r, status, body) ==
  [ Call("createMediaItem", r) EXCEPT
      !.token = l.token, !.uploadToken = l.uploadToken, !.filename = l.filename,
      !.albumId = l.albumId, !.status = status,
      !.body = IF ResponseOk(status) THEN body ELSE "" ]

\* The first attempt of phase B.
CreateItem(j) ==
  /\ pc[j] = "createMediaItem"
  /\ \E status \in HttpResponses, body \in CreateBodies :
       LET l == loc[j]
           r == createMediaItem(l.uploadToken, l.filename, l.token, l.albumId, status, body)
       IN /\ calls' = Log(j, CreateCall(l, r, status, body))
          /\ IF r.ok
               THEN /\ loc' = [loc EXCEPT ![j].mediaItemId = r.value]
                    /\ pc' = Goto(j, "addUploadRecord")
                    /\ UNCHANGED outcome
               ELSE PhaseBCatch(j, r.error)
  /\ UNCHANGED << uploadQueue, prev, link, toasts, started, cachedAuthToken, minted, selectedAlbumId, uploadHistory >>
  /\ UNCHANGED authVars

\* Variant: after a phase-B expiry the pipeline is replayed from the download.
RefreshBRestarts(j) == RefreshStep(j, "refreshTokenB", "downloadImage")

RefreshB(j) == RefreshStep(j, "refreshTokenB", "createMediaItemRetry")

\* The replay of phase B inside the catch.
CreateItemRetry(j) ==
  /\ pc[j] = "createMediaItemRetry"
  /\ \E status \in HttpResponses, body \in CreateBodies :
       LET l == loc[j]
           r == createMediaItem(l.uploadToken, l.filename, l.token, l.albumId, status, body)
       IN /\ calls' = Log(j, CreateCall(l, r, status, body))
          /\ IF r.ok
               THEN /\ loc' = [loc EXCEPT ![j].mediaItemId = r.value]
                    /\ pc' = Goto(j, "addUploadRecord")
                    /\ UNCHANGED outcome
               ELSE Raise(j, l, r.error)
  /\ UNCHANGED << uploadQueue, prev, link, toasts, started, cachedAuthToken, minted, selectedAlbumId, uploadHistory >>
  /\ UNCHANGED authVars

\* --------------------------------------------------------- history append
Take(seq, n) == SubSeq(seq, 1, IF Len(seq) < n THEN Len(seq) ELSE n)

\* After the try around addUploadRecord: the toasts when there is a tab,
\* else the function returns and the finally block clears the interval.
AfterRecord(j, l) ==
  /\ loc' = [loc EXCEPT ![j] =
               [l EXCEPT !.keepAliveInterval = IF l.tab # NoTab THEN @ ELSE ClearInterval(@)]]
  /\ pc' = Goto(j, IF l.tab # NoTab THEN "dismissLoading" ELSE "returned")
  /\ outcome' = IF l.tab # NoTab THEN outcome ELSE [outcome EXCEPT ![j] = "Done"]

\* Variant: a failed append leaves the outer try block.
RecordCatchRethrows(j, l, e) == Raise(j, l, e)

\* The catch around addUploadRecord logs the error and goes on.
RecordCatch(j, l, e) == AfterRecord(j, l)

\* addUploadRecord, first await: read the stored history.  A rejection is
\* rethrown by addUploadRecord and swallowed by handleImageUpload.
HistoryGet(j) ==
  /\ pc[j] = "addUploadRecord"
  /\ \E rejects \in BOOLEAN :
       IF rejects
         THEN /\ calls' = Log(j, Call("addUploadRecord", Threw(Err(StorageFailedMessage))))
              /\ RecordCatch(j, loc[j], Err(StorageFailedMessage))
         ELSE /\ loc' = [loc EXCEPT ![j].history = uploadHistory]
              /\ pc' = Goto(j, "historySet")
              /\ UNCHANGED << calls, outcome >>
  /\ UNCHANGED << uploadQueue, prev, link, toasts, started, cachedAuthToken, minted, selectedAlbumId, uploadHistory >>
  /\ UNCHANGED authVars

\* An identifier an earlier append has used.
RepeatedUUID(j) == 0

\* crypto.randomUUID() gives an identifier no other call gives: the job's own
\* number stands for it.
RandomUUID(j) == j

\* Date.now() as addUploadRecord reads it: the appends of the chain run one
\* after the other, and the instant of job j's append is named by j.
Now(j) == j

\* The permanent link the service returns with a media item.
ProductUrl(mediaItemId) == "https://photos.google.com/lr/photo/" \o ToString(mediaItemId)

NewRecord(j, l) ==
  [id |-> RandomUUID(j), timestamp |-> Now(j), filename |-> l.filename,
   mediaItemId |-> l.mediaItemId, productUrl |-> ProductUrl(l.mediaItemId)]

\* The new record in front of the stored ones, without a cut.
PrependUncut(newRecord, history) == << newRecord >> \o history

\* [newRecord, ...uploadHistory].slice(0, MAX_RECORDS)
Prepend(newRecord, history) == Take(<< newRecord >> \o history, MAX_RECORDS)

\* addUploadRecord, second await: write the new record in front of what was
\* read, cut to MAX_RECORDS.
HistorySet(j) ==
  /\ pc[j] = "historySet"
  /\ \E rejects \in BOOLEAN :
       /\ calls' = Log(j, Call("addUploadRecord",
                          IF rejects THEN Threw(Err(StorageFailedMessage)) ELSE Returned(0)))
       /\ uploadHistory' =
            IF rejects THEN uploadHistory
            ELSE Prepend(NewRecord(j, loc[j]), loc[j].history)
       /\ IF rejects
            THEN RecordCatch(j, [loc[j] EXCEPT !.history = << >>], Err(StorageFailedMessage))
            ELSE AfterRecord(j, [loc[j] EXCEPT !.history = << >>])
  /\ surface' = OnChanged(uploadHistory, uploadHistory')
  /\ UNCHANGED << uploadQueue, prev, link, toasts, started, cachedAuthToken, minted, selectedAlbumId >>
  /\ UNCHANGED << isManuallyLoggedOut, cached, app, silentRequests, panel, cacheVars >>

\* ------------------------------------------------------------ the endings
DismissLoading(j) ==
  /\ pc[j] = "dismissLoading"
  /\ \E delivered \in BOOLEAN : DismissToastInTab(j, delivered)
  /\ pc' = Goto(j, "showSuccess")
  /\ UNCHANGED << uploadQueue, prev, link, loc, calls, started, outcome, cachedAuthToken, minted, selectedAlbumId, uploadHistory >>
  /\ UNCHANGED authVars

ShowSuccess(j) ==
  /\ pc[j] = "showSuccess"
  /\ \E o \in ShowToastOutcomes :
       ShowToastInTab(j, loc[j].tab, "success", "Image uploaded to Google Photos", o)
  /\ pc' = Goto(j, "returned")
  /\ loc' = [loc EXCEPT ![j].keepAliveInterval = ClearInterval(@)]
  /\ outcome' = [outcome EXCEPT ![j] = "Done"]
  /\ UNCHANGED << uploadQueue, prev, link, calls, started,
                  cachedAuthToken, minted, selectedAlbumId, uploadHistory >>
  /\ UNCHANGED authVars

\* Variant: a dismissal that is not delivered throws into the catch block.
DismissFailureReplaces(e, delivered) ==
  IF delivered THEN e ELSE Err("Could not establish connection. Receiving end does not exist.")

\* What the catch block rethrows after awaiting dismissToastInTab, which
\* catches a lost message itself: the error it caught.
ErrorAfterDismiss(e, delivered) == e

\* The catch block of handleImageUpload: dismiss, rethrow, clear the interval.
DismissOnError(j) ==
  /\ pc[j] = "dismissOnError"
  /\ \E delivered \in BOOLEAN :
       /\ DismissToastInTab(j, delivered)
       /\ loc' = [loc EXCEPT ![j].keepAliveInterval = ClearInterval(@),
                             ![j].error = ErrorAfterDismiss(@, delivered)]
  /\ pc' = Goto(j, "rejected")
  /\ outcome' = [outcome EXCEPT ![j] = "Failed"]
  /\ UNCHANGED << uploadQueue, prev, link, calls, started, cachedAuthToken, minted, selectedAlbumId, uploadHistory >>
  /\ UNCHANGED authVars

\* Variant: the toast carries a fixed text.
GenericToastMessage(e) == "Upload failed"

ErrorToastMessage(e) == IF e.message # "" THEN e.message ELSE "Upload failed"

\* The chain's .catch(): the error toast when there is a tab.
CatchHandler(j) ==
  /\ pc[j] = "rejected"
  /\ IF loc[j].tab # NoTab
       THEN \E o \in ShowToastOutcomes :
              ShowToastInTab(j, loc[j].tab, "error", ErrorToastMessage(loc[j].error), o)
       ELSE UNCHANGED toasts
  /\ pc' = Goto(j, "reported")
  /\ UNCHANGED << uploadQueue, prev, link, loc, calls, started, outcome,
                  cachedAuthToken, minted, selectedAlbumId, uploadHistory >>
  /\ UNCHANGED authVars

\* Variant: the .catch() handler rethrows.
CatchRethrows == "rejected"

\* How job j's link settles after the .catch() handler has run: the handler
\* swallows the toast's failure and returns, so the link is fulfilled.
CatchSettles == "fulfilled"

\* The link of job j settles: after .then() when handleImageUpload returned,
\* after .catch() when it threw.  The activation's locals are gone.
Settle(j) ==
  /\ pc[j] \in {"returned", "reported"}
  /\ link' = [link EXCEPT ![j] = IF pc[j] = "returned" THEN "fulfilled" ELSE CatchSettles]
  /\ pc' = Goto(j, "settled")
  /\ loc' = [loc EXCEPT ![j] =
               IF pc[j] = "reported" /\ CatchSettles = "rejected"
                 THEN [InitLoc EXCEPT !.error = loc[j].error]
                 ELSE InitLoc]
  /\ calls' = [calls EXCEPT ![j] = << >>]
  /\ toasts' = [toasts EXCEPT ![j] = << >>]
  /\ UNCHANGED << uploadQueue, prev, started, outcome, cachedAuthToken, minted, selectedAlbumId, uploadHistory >>
  /\ UNCHANGED authVars

Next ==
  \/ \E j \in Jobs : OnClicked(j)
  \/ \E j \in Jobs : Start(j)
  \/ \E j \in Jobs : ShowLoading(j)
  \/ \E j \in Jobs : GetAuthTokenSilent(j)
  \/ \E j \in Jobs : GetAuthTokenInteractive(j)
  \/ \E j \in Jobs : DownloadImage(j)
  \/ \E j \in Jobs : StripExifMetadata(j)
  \/ \E j \in Jobs : UploadBytes(j)
  \/ \E j \in Jobs : RefreshA(j)
  \/ \E j \in Jobs : UploadBytesRetry(j)
  \/ \E j \in Jobs : AlbumGet(j)
  \/ \E j \in Jobs : AlbumValidate(j)
  \/ \E j \in Jobs : AlbumSet(j)
  \/ \E j \in Jobs : AlbumRemove(j)
  \/ \E j \in Jobs : CreateItem(j)
  \/ \E j \in Jobs : RefreshB(j)
  \/ \E j \in Jobs : CreateItemRetry(j)
  \/ \E j \in Jobs : HistoryGet(j)
  \/ \E j \in Jobs : HistorySet(j)
  \/ \E j \in Jobs : DismissLoading(j)
  \/ \E j \in Jobs : ShowSuccess(j)
  \/ \E j \in Jobs : DismissOnError(j)
  \/ \E j \in Jobs : CatchHandler(j)
  \/ \E j \in Jobs : Settle(j)

Spec == Init /\ [][Next]_vars

\* The same behaviours, named apart for the claims about a job's steps,
\* record, notifications and ending.
EndingSpec == Init /\ [][Next]_vars

\* The same behaviours once more, for the claims about retries.
ReplaySpec == Init /\ [][Next]_vars

\* =================================================================== claims
\* Labels inside handleImageUpload, from its first await to its last.
RunningLabels ==
  { "showLoading", "getAuthToken", "getAuthTokenInteractive", "downloadImage",
    "stripExifMetadata", "uploadImageBytes", "refreshTokenA", "uploadImageBytesRetry",
    "albumGet", "getOrCreateMemePhotoAlbum", "albumSet", "albumRemove",
    "createMediaItem", "refreshTokenB", "createMediaItemRetry", "addUploadRecord",
    "historySet", "dismissLoading", "showSuccess", "dismissOnError" }

Running(j) == pc[j] \in RunningLabels

\* Labels of a job whose try block has thrown.
FailLabels == {"dismissOnError", "rejected", "reported"}

Ended(j) == outcome[j] \in {"Done", "Failed"}

CallIndexes(j, step) == {i \in DOMAIN calls[j] : calls[j][i].step = step}

Count(j, step) == Cardinality(CallIndexes(j, step))

LastCall(j) == calls[j][Len(calls[j])]

\* C1: at most one job is inside handleImageUpload at any instant, and a job
\* has made no call and is at no step while an earlier job has not yet
\* reached Done or Failed.
C1_SingleFlight ==
  /\ \A a, b \in Jobs : a # b => ~(Running(a) /\ Running(b))
  /\ \A a, b \in Jobs :
       a < b /\ (Running(b) \/ calls[b] # << >>) => Ended(a)

\* Job 1 is suspended at its download while job 2 waits in the chain.
C1_Witness ==
  MaxJobs >= 2 /\ pc[1] = "downloadImage" /\ pc[2] = "queued"

\* C6: a failed job's link settles fulfilled, and only after the .catch()
\* handler has reported the failure; the job queued behind it can then enter
\* handleImageUpload and does so with fresh locals instead of inheriting the
\* rejection.
C6_FailureDoesNotBlock ==
  \A j \in Jobs :
    /\ link[j] # "pending" => link[j] = "fulfilled" /\ pc[j] = "settled"
    /\ pc[j] \in {"dismissOnError", "rejected"} => link[j] = "pending"
    /\ pc[j] = "queued" /\ PromiseState(prev[j]) # "pending" => ENABLED Start(j)
    /\ \A i \in Jobs :
         i < j /\ outcome[i] = "Failed" /\ pc[j] \notin {"idle", "queued"} =>
           \E k \in DOMAIN started : started[k] = j

\* Job 1 has failed and settled, and job 2 has run to its end after it.
C6_Witness ==
  /\ MaxJobs >= 2
  /\ outcome[1] = "Failed" /\ pc[1] = "settled"
  /\ pc[2] = "returned"

\* C7: jobs enter handleImageUpload in the order they were submitted.
C7_StartOrder ==
  \A k \in DOMAIN started : started[k] = k

\* Two jobs have started, the first of which failed.
C7_Witness ==
  Len(started) >= 2 /\ outcome[1] = "Failed" /\ outcome[2] = "Done"

\* ------------------------------------------------ credential expiry (C2-C5)
PhaseSteps == {"uploadImageBytes", "createMediaItem"}

\* The i-th call of job j is the first call of its step.
IsFirstOfStep(j, i) ==
  \A k \in DOMAIN calls[j] : k < i => calls[j][k].step # calls[j][i].step

Expired(c) == c.step \in PhaseSteps /\ c.thrown = "TokenExpiredError"

\* C2 as stated: a job refreshes its credential at most once in total.
C2_OneRefreshPerJob ==
  \A j \in Jobs : Count(j, "refreshToken") <= 1

\* C2 as amended: each upload phase is called at most twice; a refresh only
\* ever follows the expired first attempt of a phase, so each phase refreshes
\* at most once and a job at most twice; an expiry reported by a replay is
\* the job's last call and leaves the job failing with that error.
C2_OneRefreshPerPhase ==
  \A j \in Jobs :
    /\ \A step \in PhaseSteps : Count(j, step) <= 2
    /\ Count(j, "refreshToken") <= 2
    /\ \A i \in CallIndexes(j, "refreshToken") :
         /\ i > 1
         /\ Expired(calls[j][i - 1])
         /\ IsFirstOfStep(j, i - 1)
         /\ calls[j][i].token = calls[j][i - 1].token
    /\ \A i \in DOMAIN calls[j] :
         Expired(calls[j][i]) /\ ~IsFirstOfStep(j, i) =>
           /\ i = Len(calls[j])
           /\ pc[j] \in FailLabels
           /\ loc[j].error.name = "TokenExpiredError"

\* Phase A expired, was refreshed and replayed, and the replay expired again:
\* the job has failed after one refresh.
C2_Witness ==
  \E j \in Jobs :
    /\ pc[j] = "rejected"
    /\ Count(j, "uploadImageBytes") = 2
    /\ Count(j, "refreshToken") = 1
    /\ Expired(LastCall(j))

\* C3: when phase A's first attempt expires and the refresh returns a token,
\* the next call is phase A again, with exactly that token, and it is the
\* last call of phase A; from there the job fails only if a later call
\* throws, and so ends Done when none does.
C3_PhaseAReplay ==
  \A j \in Jobs :
    \A i \in CallIndexes(j, "uploadImageBytes") :
      (/\ Expired(calls[j][i])
       /\ Len(calls[j]) > i
       /\ calls[j][i + 1].step = "refreshToken"
       /\ calls[j][i + 1].thrown = "none")
      =>
      /\ Count(j, "uploadImageBytes") <= 2
      /\ IF Len(calls[j]) = i + 1
           THEN pc[j] = "uploadImageBytesRetry" /\ loc[j].token = calls[j][i + 1].result
           ELSE /\ calls[j][i + 2].step = "uploadImageBytes"
                /\ calls[j][i + 2].token = calls[j][i + 1].result
      /\ pc[j] \in FailLabels => LastCall(j).thrown # "none" /\ Len(calls[j]) > i + 1
      /\ (\A k \in DOMAIN calls[j] : k > i + 1 => calls[j][k].thrown = "none") =>
           pc[j] \notin FailLabels

\* Phase A expired with one token, was replayed once with a different one,
\* and the job has returned.
C3_Witness ==
  \E j \in Jobs :
    /\ pc[j] = "returned"
    /\ Count(j, "uploadImageBytes") = 2
    /\ \E i \in CallIndexes(j, "uploadImageBytes") :
         /\ Expired(calls[j][i])
         /\ calls[j][i + 2].step = "uploadImageBytes"
         /\ calls[j][i + 2].token # calls[j][i].token
         /\ calls[j][i + 2].thrown = "none"

\* C4: after a refresh the next call is the step that reported the expiry
\* and no other; download and rewrite are called at most once per job; once
\* phase B has been called, neither phase A nor download nor rewrite is
\* called again; and every call of phase B in a job is given the same upload
\* token, filename and album id.
C4_OnlyFailedStepReplayed ==
  \A j \in Jobs :
    /\ Count(j, "downloadImage") <= 1
    /\ Count(j, "stripExifMetadata") <= 1
    /\ \A i \in CallIndexes(j, "refreshToken") :
         /\ i > 1
         /\ Len(calls[j]) > i => calls[j][i + 1].step = calls[j][i - 1].step
    /\ \A i \in CallIndexes(j, "uploadImageBytes") :
         \A k \in DOMAIN calls[j] :
           k > i => calls[j][k].step \notin {"downloadImage", "stripExifMetadata"}
    /\ \A i, k \in CallIndexes(j, "createMediaItem") :
         /\ calls[j][i].uploadToken = calls[j][k].uploadToken
         /\ calls[j][i].filename = calls[j][k].filename
         /\ calls[j][i].albumId = calls[j][k].albumId
    /\ \A i \in CallIndexes(j, "createMediaItem") :
         \A k \in DOMAIN calls[j] :
           k > i => calls[j][k].step \notin
                      {"downloadImage", "stripExifMetadata", "uploadImageBytes"}

\* Phase B expired, the credential was refreshed, and phase B was replayed
\* in a job that had resolved an album.
C4_Witness ==
  \E j \in Jobs :
    /\ Count(j, "createMediaItem") = 2
    /\ Count(j, "refreshToken") >= 1
    /\ LastCall(j).step = "createMediaItem"
    /\ LastCall(j).albumId = AppAlbumId
    /\ LastCall(j).thrown = "none"

Quota(c) == c.step \in PhaseSteps /\ c.thrown = "QuotaExceededError"

\* C5: a phase call answered with HTTP 429 throws the quota error; it is the
\* job's last call (no refresh, no further phase call) and the job is failing
\* with the quota error and its daily-limit message.
C5_QuotaIsTerminal ==
  \A j \in Jobs :
    \A i \in DOMAIN calls[j] :
      /\ calls[j][i].step \in PhaseSteps /\ calls[j][i].status = 429 => Quota(calls[j][i])
      /\ Quota(calls[j][i]) =>
           /\ i = Len(calls[j])
           /\ pc[j] \in FailLabels
           /\ loc[j].error = QuotaExceededError
           /\ loc[j].error.message = QuotaExceededMessage

\* A post-refresh replay of phase B was answered with 429 and the job has
\* failed.
C5_Witness ==
  \E j \in Jobs :
    /\ pc[j] = "rejected"
    /\ Count(j, "createMediaItem") = 2
    /\ Quota(LastCall(j))

\* --------------------------------------------------- step order (C8, C9)
Milestones ==
  { "getAuthToken", "downloadImage", "stripExifMetadata", "uploadImageBytes",
    "createMediaItem", "addUploadRecord" }

IsMilestone(c) == c.step \in Milestones /\ c.thrown = "none"

\* The steps job j has completed, in order.
Passed(j) ==
  LET done == SelectSeq(calls[j], IsMilestone)
  IN [i \in DOMAIN done |-> done[i].step]

\* C8 as stated: a job that has returned has completed all six steps, in
\* order.
C8_AllStepsInOrder ==
  \A j \in Jobs :
    pc[j] = "returned" =>
      Passed(j) = << "getAuthToken", "downloadImage", "stripExifMetadata",
                     "uploadImageBytes", "createMediaItem", "addUploadRecord" >>

\* C8 as amended: a job that has returned has completed credential,
\* download, rewrite, phase A and phase B in this order and then called the
\* history append, which alone may have failed; phase B was only ever given
\* the upload token that phase A of the same job returned.
C8_StepsInOrderUpToRecord ==
  \A j \in Jobs :
    /\ pc[j] = "returned" =>
         /\ Passed(j) \in
              { << "getAuthToken", "downloadImage", "stripExifMetadata",
                   "uploadImageBytes", "createMediaItem", "addUploadRecord" >>,
                << "getAuthToken", "downloadImage", "stripExifMetadata",
                   "uploadImageBytes", "createMediaItem" >> }
         /\ LastCall(j).step = "addUploadRecord"
    /\ \A i \in CallIndexes(j, "createMediaItem") :
         \E k \in CallIndexes(j, "uploadImageBytes") :
           /\ k < i
           /\ calls[j][k].thrown = "none"
           /\ calls[j][k].result = calls[j][i].uploadToken

\* A job has returned although its history append failed.
C8_Witness ==
  \E j \in Jobs :
    /\ pc[j] = "returned"
    /\ LastCall(j).step = "addUploadRecord"
    /\ LastCall(j).thrown # "none"

RecordIndexes(j) == {i \in DOMAIN uploadHistory : uploadHistory[i].id = j}

\* The call of phase B that returned job j's media item with the given id.
CreatedItem(j, mediaItemId) ==
  \E i \in CallIndexes(j, "createMediaItem") :
    /\ calls[j][i].thrown = "none"
    /\ ResponseOk(calls[j][i].status)
    /\ calls[j][i].body = "created"
    /\ calls[j][i].result = mediaItemId
    /\ \A k \in CallIndexes(j, "createMediaItem") : k <= i

\* C9: the history holds at most one record per job and none of a failed
\* job; a record's job has either settled as Done or shows, in its calls, the
\* phase B call that answered 2xx with a created item and no per-item error
\* and whose item the record names.
C9_RecordOnlyAfterCreatedItem ==
  \A j \in Jobs :
    /\ Cardinality(RecordIndexes(j)) <= 1
    /\ outcome[j] = "Failed" \/ pc[j] \in FailLabels => RecordIndexes(j) = {}
    /\ \A i \in RecordIndexes(j) :
         \/ pc[j] = "settled" /\ outcome[j] = "Done"
         \/ CreatedItem(j, uploadHistory[i].mediaItemId)

\* A job has returned and its record is the newest of the history.
C9_Witness ==
  \E j \in Jobs :
    /\ pc[j] = "returned"
    /\ uploadHistory # << >>
    /\ uploadHistory[1].id = j

\* --------------------------------------------------- notifications (C10)
ShowIndexes(j, type) ==
  {i \in DOMAIN toasts[j] : toasts[j][i].action = "showToast" /\ toasts[j][i].type = type}

Attempts(j, type) == Cardinality(ShowIndexes(j, type))

Displayed(j, type) ==
  Cardinality({i \in ShowIndexes(j, type) : toasts[j][i].delivered})

\* C10 as stated: a job that has failed and been reported has displayed
\* exactly one error toast and no success toast; a job that has returned has
\* displayed exactly one success toast and no error toast.
C10_ExactlyOneNotification ==
  \A j \in Jobs :
    /\ pc[j] = "reported" => Displayed(j, "error") = 1 /\ Displayed(j, "success") = 0
    /\ pc[j] = "returned" => Displayed(j, "success") = 1 /\ Displayed(j, "error") = 0

\* C10 as amended: a job never shows a success and an error toast both, nor
\* two of either; a failed, reported job with a tab id has made exactly one
\* call to show an error toast, with the failure's message ("Upload failed"
\* when the error has none), and one without a tab id none; a returned job with a tab id has made exactly one call to
\* show the success toast, and one without a tab id none; a call that the
\* relay fails to deliver displays nothing.
C10_AtMostOneNotification ==
  \A j \in Jobs :
    /\ Attempts(j, "error") + Attempts(j, "success") <= 1
    /\ pc[j] = "reported" =>
         /\ Attempts(j, "error") = IF loc[j].tab # NoTab THEN 1 ELSE 0
         /\ Attempts(j, "success") = 0
         /\ \A i \in ShowIndexes(j, "error") :
              toasts[j][i].message =
                IF loc[j].error.message # "" THEN loc[j].error.message ELSE "Upload failed"
    /\ pc[j] = "returned" =>
         /\ Attempts(j, "success") = IF loc[j].tab # NoTab THEN 1 ELSE 0
         /\ Attempts(j, "error") = 0
    /\ \A type \in {"error", "success"} : Displayed(j, type) <= Attempts(j, type)

\* A failed job has displayed its error toast.
C10_Witness ==
  \E j \in Jobs :
    /\ pc[j] = "reported"
    /\ Displayed(j, "error") = 1
    /\ loc[j].error = QuotaExceededError

\* ------------------------------------------------ relay failures (C11, C12)
\* A throw that handleImageUpload recovers from: the expired first attempt
\* of a phase, the album validation and its store, and the history append.
Recovered(j, i) ==
  \/ Expired(calls[j][i]) /\ IsFirstOfStep(j, i)
  \/ calls[j][i].step \in {"getOrCreateMemePhotoAlbum", "storage.sync.set", "addUploadRecord"}

\* The i-th call of job j threw out of handleImageUpload's try block.
Fatal(j, i) == calls[j][i].thrown # "none" /\ ~Recovered(j, i)

Undelivered(j) == {i \in DOMAIN toasts[j] : ~toasts[j][i].delivered}

\* C11: whatever the relay's calls did, a job that has returned is Done and
\* none of its calls threw out of the try block; a job that has thrown is
\* failing because its last call did, ends Failed, and carries that call's
\* error, name and message, up to the .catch() handler.
C11_RelayNeverChangesOutcome ==
  \A j \in Jobs :
    /\ \A i \in DOMAIN calls[j] :
         Fatal(j, i) => i = Len(calls[j]) /\ pc[j] \in FailLabels
    /\ pc[j] = "returned" => outcome[j] = "Done"
    /\ pc[j] \in FailLabels =>
         /\ calls[j] # << >>
         /\ Fatal(j, Len(calls[j]))
         /\ loc[j].error.name = LastCall(j).thrown
         /\ loc[j].error.message = LastCall(j).message
    /\ pc[j] \in {"rejected", "reported"} => outcome[j] = "Failed"

\* One job has ended Done and another has ended Failed on a quota error
\* although neither its loading toast, its dismissal nor its error toast
\* was delivered.
C11_Witness ==
  \E a, b \in Jobs :
    /\ pc[a] = "settled" /\ outcome[a] = "Done"
    /\ pc[b] = "reported" /\ outcome[b] = "Failed"
    /\ Len(toasts[b]) = 3
    /\ Undelivered(b) = DOMAIN toasts[b]
    /\ loc[b].error = QuotaExceededError

AppendFailed(j) ==
  /\ calls[j] # << >>
  /\ LastCall(j).step = "addUploadRecord"
  /\ LastCall(j).thrown # "none"

\* C12: a job whose history append threw is not failing: it goes on to the
\* loading toast's dismissal and the success toast like a job whose append
\* succeeded, returns as Done with the call to show the success toast made
\* (when the click has a tab id) and no call to show an error toast, and
\* leaves no record of itself in the history.
C12_AppendFailureSwallowed ==
  \A j \in Jobs :
    AppendFailed(j) =>
      /\ pc[j] \in {"dismissLoading", "showSuccess", "returned"}
      /\ loc[j].error = NoError
      /\ RecordIndexes(j) = {}
      /\ Attempts(j, "error") = 0
      /\ pc[j] = "returned" =>
           /\ outcome[j] = "Done"
           /\ Attempts(j, "success") = IF loc[j].tab # NoTab THEN 1 ELSE 0

\* The write of the history was rejected and the job has returned after
\* showing its success toast.
C12_Witness ==
  \E j \in Jobs :
    /\ AppendFailed(j)
    /\ pc[j] = "returned"
    /\ Displayed(j, "success") = 1
    /\ Count(j, "createMediaItem") >= 1

\* ------------------------------------------------------- keep-alive (C13)
KeepAliveActive(j) == loc[j].keepAliveInterval

\* C13: job j's keep-alive interval is set exactly while j is inside
\* handleImageUpload: it is set at every await of the function, cleared once
\* the function has returned or thrown, whichever call threw, and never set
\* for a job that has not started; so no interval is set when no job is
\* inside handleImageUpload.
C13_KeepAliveCleared ==
  /\ \A j \in Jobs :
       /\ KeepAliveActive(j) <=> Running(j)
       /\ Ended(j) => ~KeepAliveActive(j)
  /\ (\A j \in Jobs : ~Running(j)) => \A j \in Jobs : ~KeepAliveActive(j)

\* A job with a tab has failed in its phase-B replay and thrown out of
\* handleImageUpload, the interval it had started is cleared, and no job is
\* in flight.
C13_Witness ==
  \E j \in Jobs :
    /\ pc[j] = "rejected"
    /\ loc[j].tab # NoTab
    /\ outcome[j] = "Failed"
    /\ LastCall(j).step = "createMediaItem"
    /\ Count(j, "createMediaItem") = 2
    /\ ~KeepAliveActive(j)
    /\ \A i \in Jobs : ~Running(i)

\* ============================================ one job, any locator (C14, C15)
\* The steps of job j other than the click and the download.
JobStep(j) ==
  \/ Start(j)
  \/ ShowLoading(j)
  \/ GetAuthTokenSilent(j)
  \/ GetAuthTokenInteractive(j)
  \/ StripExifMetadata(j)
  \/ UploadBytes(j)
  \/ RefreshA(j)
  \/ UploadBytesRetry(j)
  \/ AlbumGet(j)
  \/ AlbumValidate(j)
  \/ AlbumSet(j)
  \/ AlbumRemove(j)
  \/ CreateItem(j)
  \/ RefreshB(j)
  \/ CreateItemRetry(j)
  \/ HistoryGet(j)
  \/ HistorySet(j)
  \/ DismissLoading(j)
  \/ ShowSuccess(j)
  \/ DismissOnError(j)
  \/ CatchHandler(j)
  \/ Settle(j)

Schemes == {"https", "http", "ftp"}

DomainHosts ==
  { PublicHost,
    Domain(<< "l", "o", "c", "a", "l", "h", "o", "s", "t" >>),
    Domain(<< "L", "o", "c", "a", "l", "H", "o", "s", "t" >>),
    Domain(<< "f", "c", "e", "x", "a", "m", "p", "l", "e", ".", "c", "o", "m" >>) }

\* Octets on and next to the edges of the blocked IPv4 ranges.
FirstOctets == {9, 10, 11, 99, 100, 101, 126, 127, 128, 169, 172, 173, 192}

SecondOctets == {0, 15, 16, 31, 32, 63, 64, 127, 128, 167, 168, 169, 254, 255}

Ipv4Hosts ==
  { Ipv4(a, b, 0, 1) : a \in FirstOctets, b \in SecondOctets } \cup
  { Ipv4(169, 254, 169, 254), Ipv4(10, 255, 255, 255), Ipv4(8, 8, 8, 8) }

Ipv6Hosts ==
  { Ipv6(<< ":", ":", "1" >>),
    Ipv6(<< "f", "e", "8", "0", ":", ":", "1" >>),
    Ipv6(<< "f", "e", "b", "f", ":", ":", "1" >>),
    Ipv6(<< "f", "c", "0", "0", ":", ":", "1" >>),
    Ipv6(<< "f", "d", "1", "2", ":", "3", "4", "5", "6", ":", ":", "1" >>),
    Ipv6(<< "2", "0", "0", "1", ":", "d", "b", "8", ":", ":", "1" >>) }

Locators ==
  { Url(scheme, host) : scheme \in Schemes, host \in DomainHosts \cup Ipv6Hosts } \cup
  { Url("https", host) : host \in Ipv4Hosts } \cup
  { Url("http", Ipv4(8, 8, 8, 8)), NoUrl }

ClickedOnAnyImage == Clicked(1, Locators)

DownloadOfAnyImage == Download(1, Responses)

LocatorNext == ClickedOnAnyImage \/ DownloadOfAnyImage \/ JobStep(1)

LocatorSpec == Init /\ [][LocatorNext]_vars

\* The first sixteen bits of an IPv4 address.
Prefix16(octets) == octets[1] * 256 + octets[2]

\* The address lies in the block a.b.0.0/len, len <= 16.
InBlock(octets, a, b, len) ==
  Prefix16(octets) \div (2 ^ (16 - len)) = (a * 256 + b) \div (2 ^ (16 - len))

PrivateIpv4(octets) ==
  \/ InBlock(octets, 127, 0, 8)
  \/ InBlock(octets, 10, 0, 8)
  \/ InBlock(octets, 172, 16, 12)
  \/ InBlock(octets, 192, 168, 16)
  \/ InBlock(octets, 169, 254, 16)
  \/ InBlock(octets, 100, 64, 10)

IsLocalhost(host) ==
  host.kind = "domain" /\
  ToLowerCase(host.text) = << "l", "o", "c", "a", "l", "h", "o", "s", "t" >>

\* The locators of C14: not https, or localhost, or a blocked IPv4 address.
BlockedLocator(url) ==
  /\ url.valid
  /\ \/ url.scheme # "https"
     \/ IsLocalhost(url.host)
     \/ url.host.kind = "ipv4" /\ PrivateIpv4(url.host.octets)

BeforeDownload ==
  {"queued", "showLoading", "getAuthToken", "getAuthTokenInteractive", "downloadImage"}

\* A job holding such a locator has fetched nothing, has called neither
\* phase, is before its download or failing, and is Failed once it has thrown.
NeverFetched(j) ==
  /\ \A i \in DOMAIN calls[j] :
       /\ ~calls[j][i].fetched
       /\ calls[j][i].step \notin PhaseSteps
       /\ calls[j][i].step = "downloadImage" =>
            calls[j][i].thrown # "none" /\ i = Len(calls[j])
  /\ pc[j] \in BeforeDownload \cup FailLabels
  /\ pc[j] \in {"rejected", "reported"} => outcome[j] = "Failed"

\* The job keeps the locator, which a passed download would drop, until its
\* link settles.
NeverPasses(j) == loc'[j].imageUrl = loc[j].imageUrl \/ pc'[j] = "settled"

\* C14: a job whose locator is not https, or names localhost or an IPv4
\* address of 127/8, 10/8, 172.16/12, 192.168/16, 169.254/16 or 100.64/10,
\* never gets past downloadImage: the call throws without a fetch, no phase
\* is called, and the job ends Failed.
C14_BlockedLocatorNeverFetched ==
  /\ [](\A j \in Jobs : BlockedLocator(loc[j].imageUrl) => NeverFetched(j))
  /\ [][\A j \in Jobs : BlockedLocator(loc[j].imageUrl) => NeverPasses(j)]_vars

\* A job with the last address of the carrier-NAT range as its https host
\* has failed in downloadImage without a fetch.
C14_Witness ==
  /\ loc[1].imageUrl = Url("https", Ipv4(100, 127, 0, 1))
  /\ pc[1] = "reported"
  /\ outcome[1] = "Failed"
  /\ LastCall(1).step = "downloadImage"
  /\ ~LastCall(1).fetched
  /\ loc[1].error.message = InternalAddressMessage

HexChars ==
  << "0", "1", "2", "3", "4", "5", "6", "7", "8", "9", "a", "b", "c", "d", "e", "f" >>

HexValue(c) == (CHOOSE d \in DOMAIN HexChars : HexChars[d] = c) - 1

RECURSIVE HexNumber(_)
HexNumber(s) ==
  IF s = << >> THEN 0
  ELSE 16 * HexNumber(SubSeq(s, 1, Len(s) - 1)) + HexValue(s[Len(s)])

\* The first sixteen bits of an IPv6 address written as text.
FirstHextet(text) ==
  LET i == CHOOSE k \in DOMAIN text : text[k] = ":" /\ \A m \in 1..(k - 1) : text[m] # ":"
  IN HexNumber(SubSeq(text, 1, i - 1))

\* ::1, fe80::/10 and fc00::/7
PrivateIpv6(text) ==
  \/ text = << ":", ":", "1" >>
  \/ FirstHextet(text) \div 64 = 65152 \div 64
  \/ FirstHextet(text) \div 512 = 64512 \div 512

\* The locators of C15.
BlockedIpv6Locator(url) ==
  url.valid /\ url.scheme = "https" /\ url.host.kind = "ipv6" /\ PrivateIpv6(url.host.text)

\* C15: a job whose https locator has an IPv6 loopback, link-local or
\* unique-local address literal as its host never gets past downloadImage,
\* which throws without a fetch.
C15_BlockedIpv6NeverFetched ==
  /\ [](\A j \in Jobs : BlockedIpv6Locator(loc[j].imageUrl) => NeverFetched(j))
  /\ [][\A j \in Jobs : BlockedIpv6Locator(loc[j].imageUrl) => NeverPasses(j)]_vars

\* ============================================== one job, any response (C16)
BlobSizes == {MAX_FILE_SIZE, MAX_FILE_SIZE + 1, 210 * 1024 * 1024}

BlobTypes == {"image/jpeg", "image/png", "", "text/html"}

AnyResponses ==
  { FetchResult(fetch, FALSE, 0, "") : fetch \in {"TypeError", "Error"} } \cup
  { FetchResult("response", ok, size, type) :
      ok \in BOOLEAN, size \in BlobSizes, type \in BlobTypes }

DownloadOfAnyResponse == Download(1, AnyResponses)

ResponseNext == OnClicked(1) \/ DownloadOfAnyResponse \/ JobStep(1)

ResponseSpec == Init /\ [][ResponseNext]_vars

\* C16: a downloadImage call that read a blob larger than 200 x 1024 x 1024
\* bytes threw the 'exceeds 200MB' error and is the job's last call, so
\* neither the rewriter nor a phase was called, and the job fails with that
\* error and ends Failed; a call that read a blob of exactly that size did
\* not throw that error, and returned when the blob's type is supported.
C16_SizeCeiling ==
  \A j \in Jobs :
    \A i \in CallIndexes(j, "downloadImage") :
      /\ calls[j][i].size > 200 * 1024 * 1024 =>
           /\ calls[j][i].thrown = "Error"
           /\ calls[j][i].message = SizeExceededMessage
           /\ i = Len(calls[j])
           /\ \A k \in DOMAIN calls[j] :
                calls[j][k].step \notin PhaseSteps \cup {"stripExifMetadata"}
           /\ pc[j] \in FailLabels
           /\ loc[j].error.message = SizeExceededMessage
           /\ pc[j] \in {"rejected", "reported"} => outcome[j] = "Failed"
      /\ calls[j][i].size = 200 * 1024 * 1024 =>
           /\ calls[j][i].message # SizeExceededMessage
           /\ \/ calls[j][i].thrown = "none"
              \/ calls[j][i].message \in
                   {NoContentTypeMessage} \cup {UnsupportedFormatMessage(t) : t \in BlobTypes}

\* A blob one byte over the limit: the job has failed with the size error
\* right after its download.
C16_Witness ==
  /\ pc[1] = "reported"
  /\ outcome[1] = "Failed"
  /\ LastCall(1).step = "downloadImage"
  /\ LastCall(1).size = 200 * 1024 * 1024 + 1
  /\ loc[1].error.message = SizeExceededMessage

\* ================================ the popup's App component (C17, C18)
\* app.pc names the await at which the running handler of App is suspended;
\* "idle" is App with no handler running.
jobVars ==
  << uploadQueue, prev, link, pc, loc, calls, toasts, started, outcome >>

AppGoto(label) == [app EXCEPT !.pc = label]

\* A handler ends: in its last statement or in its catch block.
AppIdle == [app EXCEPT !.pc = "idle", !.token = NoToken]

\* The popup is opened: App mounts and its effect calls checkAuthStatus.
AppMount ==
  /\ app.pc \in {"unmounted", "idle"}
  /\ app' = [InitApp EXCEPT !.pc = "checkAuthStatus"]
  /\ UNCHANGED << jobVars, viewVars, panel, cachedAuthToken, minted, selectedAlbumId, uploadHistory,
                  isManuallyLoggedOut, cached, silentRequests >>

\* checkAuthStatus, first await: read isManuallyLoggedOut; when it is set
\* the function returns without asking for a token.
CheckAuthStatusGet ==
  /\ app.pc = "checkAuthStatus"
  /\ \E rejects \in BOOLEAN :
       app' = IF rejects \/ isManuallyLoggedOut THEN AppIdle
              ELSE AppGoto("checkAuthStatusToken")
  /\ UNCHANGED << jobVars, viewVars, panel, cachedAuthToken, minted, selectedAlbumId, uploadHistory,
                  isManuallyLoggedOut, cached, silentRequests >>

\* checkAuthStatus, second await: the silent token request.
CheckAuthStatusToken ==
  /\ app.pc = "checkAuthStatusToken"
  /\ silentRequests' = silentRequests \cup {SilentRequest("checkAuthStatus")}
  /\ \E rejects \in BOOLEAN, t \in SilentResults :
       IF rejects \/ t = NoToken
         THEN /\ app' = AppIdle
              /\ UNCHANGED << cachedAuthToken, minted >>
         ELSE /\ app' = [AppIdle EXCEPT !.isAuthorized = TRUE]
              /\ cachedAuthToken' = t
              /\ minted' = Minted(t)
  /\ UNCHANGED << jobVars, viewVars, panel, selectedAlbumId, uploadHistory, isManuallyLoggedOut, cached >>

\* The effect on isAuthorized: loadProfile asks for a token silently and
\* caches the profile it fetches with it.
LoadProfile ==
  /\ app.pc = "idle" /\ app.isAuthorized
  /\ silentRequests' = silentRequests \cup {SilentRequest("loadProfile")}
  /\ \E rejects \in BOOLEAN, t \in SilentResults, fetched \in BOOLEAN :
       IF rejects \/ t = NoToken
         THEN UNCHANGED << cachedAuthToken, minted, cached >>
         ELSE /\ cachedAuthToken' = t
              /\ minted' = Minted(t)
              /\ cached' = IF fetched THEN cached \cup {"userProfile"} ELSE cached
  /\ UNCHANGED << jobVars, viewVars, panel, selectedAlbumId, uploadHistory, isManuallyLoggedOut, app >>

\* handleAuthorize, first await: remove isManuallyLoggedOut.
HandleAuthorize ==
  /\ app.pc = "idle" /\ ~app.isAuthorized
  /\ \E rejects \in BOOLEAN :
       IF rejects
         THEN /\ app' = AppIdle
              /\ UNCHANGED isManuallyLoggedOut
         ELSE /\ app' = AppGoto("handleAuthorizeToken")
              /\ isManuallyLoggedOut' = FALSE
  /\ UNCHANGED << jobVars, viewVars, panel, cachedAuthToken, minted, selectedAlbumId, uploadHistory,
                  cached, silentRequests >>

\* handleAuthorize, second await: the interactive token request.
HandleAuthorizeToken ==
  /\ app.pc = "handleAuthorizeToken"
  /\ \E rejects \in BOOLEAN, t \in InteractiveResults :
       IF rejects \/ t = NoToken
         THEN /\ app' = AppIdle
              /\ UNCHANGED << cachedAuthToken, minted >>
         ELSE /\ app' = [AppIdle EXCEPT !.isAuthorized = TRUE]
              /\ cachedAuthToken' = t
              /\ minted' = Minted(t)
  /\ UNCHANGED << jobVars, viewVars, panel, selectedAlbumId, uploadHistory, isManuallyLoggedOut, cached,
                  silentRequests >>

\* handleLogout, first await: the silent token request.  A rejection lands
\* in the catch block, which only logs.
HandleLogout ==
  /\ app.pc = "idle" /\ app.isAuthorized
  /\ silentRequests' = silentRequests \cup {SilentRequest("handleLogout")}
  /\ \E rejects \in BOOLEAN, t \in SilentResults :
       IF rejects
         THEN /\ app' = AppIdle
              /\ UNCHANGED << cachedAuthToken, minted >>
         ELSE /\ app' = [app EXCEPT !.pc = IF t # NoToken THEN "logoutRevoke"
                                           ELSE "logoutClearTokens",
                                    !.token = t]
              /\ cachedAuthToken' = IF t # NoToken THEN t ELSE cachedAuthToken
              /\ minted' = Minted(t)
  /\ UNCHANGED << jobVars, viewVars, panel, selectedAlbumId, uploadHistory, isManuallyLoggedOut, cached >>

\* handleLogout: the POST to the revocation endpoint.  Any response, ok or
\* not, lets the handler go on; a rejected fetch lands in the catch block.
LogoutRevoke ==
  /\ app.pc = "logoutRevoke"
  /\ \E fetchRejects \in BOOLEAN, ok \in BOOLEAN :
       app' = IF fetchRejects THEN AppIdle ELSE AppGoto("logoutClearTokens")
  /\ UNCHANGED << jobVars, viewVars, panel, cachedAuthToken, minted, selectedAlbumId, uploadHistory,
                  isManuallyLoggedOut, cached, silentRequests >>

\* handleLogout: chrome.identity.clearAllCachedAuthTokens()
LogoutClearTokens ==
  /\ app.pc = "logoutClearTokens"
  /\ \E rejects \in BOOLEAN :
       IF rejects
         THEN /\ app' = AppIdle
              /\ UNCHANGED cachedAuthToken
         ELSE /\ app' = AppGoto("logoutClearProfile")
              /\ cachedAuthToken' = NoToken
  /\ UNCHANGED << jobVars, viewVars, panel, minted, selectedAlbumId, uploadHistory,
                  isManuallyLoggedOut, cached, silentRequests >>

\* clearUserProfile, clearThumbnailCache, clearAlbumCache: each removes its
\* key and catches a rejection of the removal itself.
LogoutClearCache(from, key, to) ==
  /\ app.pc = from
  /\ \E rejects \in BOOLEAN :
       /\ cached' = IF rejects THEN cached ELSE cached \ {key}
       /\ thumbnailCache' = IF ~rejects /\ key = "thumbnailCache" THEN << >> ELSE thumbnailCache
       /\ albumCache' = IF ~rejects /\ key = "albumCache" THEN << >> ELSE albumCache
  /\ app' = AppGoto(to)
  /\ UNCHANGED << jobVars, now, viewer, titles, putAt, surface, image, credential, display, aggregator, panel, cachedAuthToken, minted, selectedAlbumId, uploadHistory,
                  isManuallyLoggedOut, silentRequests >>

LogoutClearProfile ==
  LogoutClearCache("logoutClearProfile", "userProfile", "logoutClearThumbnails")

LogoutClearThumbnails ==
  LogoutClearCache("logoutClearThumbnails", "thumbnailCache", "logoutClearAlbums")

LogoutClearAlbums ==
  LogoutClearCache("logoutClearAlbums", "albumCache", "logoutClearHistory")

\* clearUploadHistory: removes the key and catches a rejection itself.
LogoutClearHistory ==
  /\ app.pc = "logoutClearHistory"
  /\ \E rejects \in BOOLEAN :
       uploadHistory' = IF rejects THEN uploadHistory ELSE << >>
  /\ surface' = OnChanged(uploadHistory, uploadHistory')
  /\ app' = AppGoto("logoutRemoveAlbum")
  /\ UNCHANGED << jobVars, cacheVars, panel, cachedAuthToken, minted, selectedAlbumId,
                  isManuallyLoggedOut, cached, silentRequests >>

\* handleLogout: chrome.storage.sync.remove('selectedAlbumId')
LogoutRemoveAlbum ==
  /\ app.pc = "logoutRemoveAlbum"
  /\ \E rejects \in BOOLEAN :
       IF rejects
         THEN /\ app' = AppIdle
              /\ UNCHANGED selectedAlbumId
         ELSE /\ app' = AppGoto("logoutSetFlag")
              /\ selectedAlbumId' = NoAlbum
  /\ UNCHANGED << jobVars, viewVars, panel, cachedAuthToken, minted, uploadHistory,
                  isManuallyLoggedOut, cached, silentRequests >>

\* handleLogout: chrome.storage.local.set({ isManuallyLoggedOut: true }),
\* then the component's state is reset.
LogoutSetFlag ==
  /\ app.pc = "logoutSetFlag"
  /\ \E rejects \in BOOLEAN :
       IF rejects
         THEN /\ app' = AppIdle
              /\ UNCHANGED isManuallyLoggedOut
         ELSE /\ app' = [AppIdle EXCEPT !.isAuthorized = FALSE]
              /\ isManuallyLoggedOut' = TRUE
  /\ UNCHANGED << jobVars, viewVars, panel, cachedAuthToken, minted, selectedAlbumId, uploadHistory,
                  cached, silentRequests >>

\* What the store holds when the popup is opened after earlier use: filled
\* caches, a selected album and a history with a record.
\* The record an earlier append left: the k-th append before this run has
\* the identifier and the instant 1 - k.
Earlier(k) ==
  [id |-> 1 - k, timestamp |-> 1 - k, filename |-> "meme-photo-0.png",
   mediaItemId |-> 0, productUrl |-> ProductUrl(0)]

EarlierRecord == Earlier(1)

AuthInit ==
  /\ uploadQueue = 0
  /\ prev = [j \in Jobs |-> 0]
  /\ link = [j \in Jobs |-> "pending"]
  /\ pc = [j \in Jobs |-> "idle"]
  /\ loc = [j \in Jobs |-> InitLoc]
  /\ calls = [j \in Jobs |-> <<>>]
  /\ toasts = [j \in Jobs |-> <<>>]
  /\ started = <<>>
  /\ outcome = [j \in Jobs |-> "none"]
  /\ cachedAuthToken = NoToken
  /\ minted = 0
  /\ selectedAlbumId = AppAlbumId
  /\ uploadHistory = << EarlierRecord >>
  /\ isManuallyLoggedOut = FALSE
  /\ cached = CacheKeys
  /\ app = InitApp
  /\ silentRequests = {}
  /\ panel = InitPanel
  /\ ViewAtRest

\* The popup's handlers, and an upload job followed to the end of its
\* credential step.
AuthNext ==
  \/ AppMount
  \/ CheckAuthStatusGet
  \/ CheckAuthStatusToken
  \/ LoadProfile
  \/ HandleAuthorize
  \/ HandleAuthorizeToken
  \/ HandleLogout
  \/ LogoutRevoke
  \/ LogoutClearTokens
  \/ LogoutClearProfile
  \/ LogoutClearThumbnails
  \/ LogoutClearAlbums
  \/ LogoutClearHistory
  \/ LogoutRemoveAlbum
  \/ LogoutSetFlag
  \/ OnClicked(1)
  \/ Start(1)
  \/ ShowLoading(1)
  \/ GetAuthTokenSilent(1)
  \/ GetAuthTokenInteractive(1)
  \/ DismissOnError(1)
  \/ CatchHandler(1)
  \/ Settle(1)

AuthSpec == AuthInit /\ [][AuthNext]_vars

\* C17: every silent token request, by the popup or by an upload job, is
\* made while isManuallyLoggedOut is not set.
C17_NoSilentRequestWhileLoggedOut ==
  \A r \in silentRequests : ~r.loggedOut

LogoutLabels ==
  { "logoutRevoke", "logoutClearTokens", "logoutClearProfile", "logoutClearThumbnails",
    "logoutClearAlbums", "logoutClearHistory", "logoutRemoveAlbum", "logoutSetFlag" }

\* C18: when handleLogout ends, however its revocation request went, the
\* caches, uploadHistory and selectedAlbumId are gone from the store and
\* isManuallyLoggedOut is set.
C18_LogoutWipesStore ==
  [][app.pc \in LogoutLabels /\ app'.pc = "idle" =>
       /\ cached' = {}
       /\ uploadHistory' = << >>
       /\ selectedAlbumId' = NoAlbum
       /\ isManuallyLoggedOut']_vars

\* ------------------------------------------- the history panel's delete
\* uploadHistory.filter(r => r.id !== id)
Filter(history, id) == SelectSeq(history, LAMBDA r : r.id # id)

\* deleteUploadRecord, first await: read the stored history and filter the
\* record out.  A rejected read, or a history without the record, ends the
\* call with false.
\* With shown, the return of deleteUploadRecord is a step of its own and
\* handleDelete's toast the next; without, the toast is taken with the
\* return.
DeleteRead(id, shown) ==
  /\ panel.pc = "idle"
  /\ \E rejects \in BOOLEAN :
       LET updated == Filter(uploadHistory, id)
       IN panel' = IF rejects \/ Len(updated) = Len(uploadHistory)
                     THEN AfterDelete(shown, id, FALSE)
                     ELSE [pc |-> "deleteSet", id |-> id, updated |-> updated, success |-> FALSE]
  /\ UNCHANGED << jobVars, viewVars, cachedAuthToken, minted, selectedAlbumId, uploadHistory,
                  isManuallyLoggedOut, cached, app, silentRequests >>

DeleteGet(id) == DeleteRead(id, FALSE)

\* deleteUploadRecord, second await: write the filtered history.
DeleteWrite(shown) ==
  /\ panel.pc = "deleteSet"
  /\ \E rejects \in BOOLEAN :
       /\ uploadHistory' = IF rejects THEN uploadHistory ELSE panel.updated
       /\ panel' = AfterDelete(shown, panel.id, ~rejects)
  /\ surface' = OnChanged(uploadHistory, uploadHistory')
  /\ UNCHANGED << jobVars, cacheVars, cachedAuthToken, minted, selectedAlbumId,
                  isManuallyLoggedOut, cached, app, silentRequests >>

DeleteSet == DeleteWrite(FALSE)

\* handleDelete after deleteUploadRecord has returned: a toast, and the
\* handler ends.
HandleDeleteEnd ==
  /\ panel.pc = "deleteReturned"
  /\ panel' = InitPanel
  /\ UNCHANGED << jobVars, viewVars, cachedAuthToken, minted, selectedAlbumId, uploadHistory,
                  isManuallyLoggedOut, cached, app, silentRequests >>

\* The history n earlier appends have left, newest first.
EarlierHistory(n) == [i \in 1..n |-> Earlier(i)]

\* The store holds one record less than MAX_RECORDS, or MAX_RECORDS.
LedgerSizes == {MAX_RECORDS - 1, MAX_RECORDS}

\* The records the panel offers to delete: the oldest and the newest of the
\* earlier ones, and the one of the job.
ShownIds == {Earlier(MAX_RECORDS).id, Earlier(1).id, RandomUUID(1)}

LedgerInit ==
  /\ uploadQueue = 0
  /\ prev = [j \in Jobs |-> 0]
  /\ link = [j \in Jobs |-> "pending"]
  /\ pc = [j \in Jobs |-> "idle"]
  /\ loc = [j \in Jobs |-> InitLoc]
  /\ calls = [j \in Jobs |-> <<>>]
  /\ toasts = [j \in Jobs |-> <<>>]
  /\ started = <<>>
  /\ outcome = [j \in Jobs |-> "none"]
  /\ cachedAuthToken = NoToken
  /\ minted = 0
  /\ selectedAlbumId \in AlbumIds
  /\ uploadHistory \in {EarlierHistory(n) : n \in LedgerSizes}
  /\ isManuallyLoggedOut = FALSE
  /\ cached = CacheKeys
  /\ app = InitApp
  /\ silentRequests = {}
  /\ panel = InitPanel
  /\ ViewAtRest

\* One upload job on top of the earlier appends, with the panel deleting
\* records meanwhile.
LedgerNext ==
  \/ OnClicked(1)
  \/ DownloadImage(1)
  \/ JobStep(1)
  \/ \E id \in ShownIds : DeleteGet(id)
  \/ DeleteSet

LedgerSpec == LedgerInit /\ [][LedgerNext]_vars

\* The same, with each return of deleteUploadRecord shown.
RemoveNext ==
  \/ OnClicked(1)
  \/ DownloadImage(1)
  \/ JobStep(1)
  \/ \E id \in ShownIds : DeleteRead(id, TRUE)
  \/ DeleteWrite(TRUE)
  \/ HandleDeleteEnd

RemoveSpec == LedgerInit /\ [][RemoveNext]_vars

\* r was appended after s: the appends run one after the other, and a later
\* one has the greater number.
AppendedAfter(r, s) == r.id > s.id

\* Job j's append writes the history.
AppendWrites(j) ==
  /\ pc[j] = "historySet"
  /\ pc'[j] # "historySet"
  /\ uploadHistory' # uploadHistory

\* C19: uploadHistory never holds more than MAX_RECORDS records and holds
\* them newest first (each record appended after its successor, hence after
\* every record behind it); an append that writes to a history of MAX_RECORDS
\* records leaves the new record followed by the MAX_RECORDS - 1 newest of
\* them, the oldest being dropped.
C19_LedgerBoundedNewestFirst ==
  /\ [](/\ Len(uploadHistory) <= MAX_RECORDS
        /\ \A i \in 1..(Len(uploadHistory) - 1) :
             AppendedAfter(uploadHistory[i], uploadHistory[i + 1]))
  /\ [][\A j \in Jobs :
          AppendWrites(j) /\ Len(uploadHistory) = MAX_RECORDS =>
            /\ uploadHistory' = << NewRecord(j, loc[j]) >> \o SubSeq(uploadHistory, 1, MAX_RECORDS - 1)
            /\ \A i \in DOMAIN uploadHistory' :
                 uploadHistory'[i].id # uploadHistory[MAX_RECORDS].id]_vars

\* An append has written to a history of MAX_RECORDS records: the job's
\* record is the first of MAX_RECORDS, the newest earlier record is the
\* second, and the last is the earlier history's last but one.
C19_Witness ==
  /\ Len(uploadHistory) = MAX_RECORDS
  /\ uploadHistory[1].id = RandomUUID(1)
  /\ uploadHistory[2] = Earlier(1)
  /\ uploadHistory[MAX_RECORDS] = Earlier(MAX_RECORDS - 1)
  /\ pc[1] = "settled"
  /\ outcome[1] = "Done"

\* C20: no two records of uploadHistory have the same id (there are as many
\* ids as records), and a record that
\* is in uploadHistory before and after a step that writes the history has
\* every field unchanged.
C20_RecordIdsDistinctFieldsFixed ==
  /\ [](Cardinality({uploadHistory[i].id : i \in DOMAIN uploadHistory}) = Len(uploadHistory))
  /\ [][uploadHistory' # uploadHistory =>
          \A i \in DOMAIN uploadHistory, k \in DOMAIN uploadHistory' :
            uploadHistory[i].id = uploadHistory'[k].id => uploadHistory[i] = uploadHistory'[k]]_vars

\* The job's record is in the history with every field as appended, after
\* the newest earlier record has been removed.
C20_Witness ==
  /\ Len(uploadHistory) = MAX_RECORDS - 1
  /\ uploadHistory[MAX_RECORDS - 1] = Earlier(MAX_RECORDS - 1)
  /\ uploadHistory[1].id = RandomUUID(1)
  /\ uploadHistory[1].timestamp = Now(1)
  /\ uploadHistory[1].productUrl = ProductUrl(uploadHistory[1].mediaItemId)
  /\ uploadHistory[2] = Earlier(2)
  /\ panel.pc = "idle"
  /\ pc[1] = "settled"

\* deleteUploadRecord returns with this step.
DeleteReturns == panel.pc # "deleteReturned" /\ panel'.pc = "deleteReturned"

HasRecord(history, id) == \E i \in DOMAIN history : history[i].id = id

\* C21: deleteUploadRecord(id) returns false, having written nothing, exactly
\* when the store holds no record with that id; otherwise it returns true and
\* the store holds what it held without the record of that id, the other
\* records in their order.
C21_RemoveExactlyTheRecord ==
  [][DeleteReturns =>
       IF HasRecord(uploadHistory, panel'.id)
         THEN /\ panel'.success
              /\ uploadHistory' = Filter(uploadHistory, panel'.id)
         ELSE /\ ~panel'.success
              /\ uploadHistory' = uploadHistory]_vars

\* ------------------------------------------------------ the thumbnail cache
\* The payload of a thumbnail: the image behind a media item does not change.
DataUrl(key) == "data:image/jpeg;base64," \o ToString(key)

\* A cache is the stored object, as the sequence of its entries in the order
\* Object.entries gives them: the order in which the keys were added.
Keys(cache) == {cache[i].key : i \in DOMAIN cache}

Has(cache, key) == key \in Keys(cache)

Lookup(cache, key) == cache[CHOOSE i \in DOMAIN cache : cache[i].key = key]

\* delete cache[key]
Delete(cache, key) == SelectSeq(cache, LAMBDA e : e.key # key)

\* cache[key] = entry: a key the object has keeps its place, a new key comes
\* last.
Assign(cache, entry) ==
  IF Has(cache, entry.key)
    THEN [i \in DOMAIN cache |-> IF cache[i].key = entry.key THEN entry ELSE cache[i]]
    ELSE Append(cache, entry)

\* Variant: an entry is stale from the expiry time on.
StaleAtLimit(age) == age >= CACHE_EXPIRY_MS

\* age > CACHE_EXPIRY_MS
Stale(age) == age > CACHE_EXPIRY_MS

\* getCachedThumbnail on what it has read: no entry, a stale one or a hit.
Find(cache, key, t) ==
  IF ~Has(cache, key) THEN "miss"
  ELSE IF Stale(t - Lookup(cache, key).cachedAt) THEN "expired"
  ELSE "hit"

\* Variant: a hit renews the entry.
TouchRenews(cache, key, t) ==
  [i \in DOMAIN cache |->
     IF cache[i].key = key
       THEN [cache[i] EXCEPT !.lastAccessedAt = t, !.cachedAt = t]
       ELSE cache[i]]

\* entry.lastAccessedAt = Date.now()
Touch(cache, key, t) ==
  [i \in DOMAIN cache |->
     IF cache[i].key = key THEN [cache[i] EXCEPT !.lastAccessedAt = t] ELSE cache[i]]

\* cacheThumbnail's first loop: the stale entries are deleted.
PurgeExpired(cache, t) == SelectSeq(cache, LAMBDA e : ~Stale(t - e.cachedAt))

\* Variant: the most recently read entries are sorted first.
SortsNewestFirst(cache, i, j) ==
  \/ cache[i].lastAccessedAt > cache[j].lastAccessedAt
  \/ cache[i].lastAccessedAt = cache[j].lastAccessedAt /\ i < j

\* entries.sort by lastAccessedAt (every entry written by this version has
\* one): the sort is stable, entries with equal times stay in key order.
SortsBefore(cache, i, j) ==
  \/ cache[i].lastAccessedAt < cache[j].lastAccessedAt
  \/ cache[i].lastAccessedAt = cache[j].lastAccessedAt /\ i < j

\* Math.max(1, Math.floor(MAX_CACHE_SIZE * 0.1))
evictCount ==
  LET tenth == MAX_CACHE_SIZE \div 10
  IN IF tenth > 1 THEN tenth ELSE 1

\* entries.slice(0, evictCount), as places in the cache.
entriesToRemove(cache) ==
  {i \in DOMAIN cache :
     Cardinality({j \in DOMAIN cache : SortsBefore(cache, j, i)}) < evictCount}

\* The cache without the entries at the given places.
Without(cache, places) ==
  LET kept == SelectSeq([i \in DOMAIN cache |-> i], LAMBDA i : i \notin places)
  IN [k \in DOMAIN kept |-> cache[kept[k]]]

\* Variant: room is made only once the cache is over its size.
OverCapacity(n) == n > MAX_CACHE_SIZE

\* entries.length >= MAX_CACHE_SIZE
AtCapacity(n) == n >= MAX_CACHE_SIZE

Evict(cache) ==
  IF AtCapacity(Len(cache)) THEN Without(cache, entriesToRemove(cache)) ELSE cache

\* cacheThumbnail between its read and its write.
cacheThumbnail(cache, mediaItemId, base64DataUrl, t) ==
  Assign(Evict(PurgeExpired(cache, t)),
         [key |-> mediaItemId, base64DataUrl |-> base64DataUrl,
          cachedAt |-> t, lastAccessedAt |-> t])

\* What the cache actions leave alone.
otherVars ==
  << jobVars, cachedAuthToken, minted, selectedAlbumId, uploadHistory,
     isManuallyLoggedOut, app, silentRequests, panel, surface, image,
     credential, display, aggregator >>

\* getCachedThumbnail, first await: read the cache.  A rejection is caught
\* and null returned; a miss returns null; a stale entry is deleted and a hit
\* touched, and the changed object is then written.
GetCachedThumbnail(v, key) ==
  /\ viewer[v].pc = "idle"
  /\ \E rejects \in BOOLEAN :
       LET found == IF rejects THEN "failed" ELSE Find(thumbnailCache, key, now)
       IN viewer' = [viewer EXCEPT ![v] =
            CASE found = "hit" ->
                   [pc |-> "hitSet", key |-> key, cache |-> Touch(thumbnailCache, key, now),
                    found |-> found, got |-> "none", at |-> now]
              [] found = "expired" ->
                   [pc |-> "expiredSet", key |-> key, cache |-> Delete(thumbnailCache, key),
                    found |-> found, got |-> "none", at |-> now]
              [] OTHER ->
                   [pc |-> "fetch", key |-> key, cache |-> << >>,
                    found |-> found, got |-> "absent", at |-> now]]
  /\ UNCHANGED << thumbnailCache, albumCache, now, titles, putAt, cached, otherVars >>

\* getCachedThumbnail, second await: write the object.  After a hit the
\* payload is returned; after a stale entry, or a rejected write, null.
GetCachedThumbnailSet(v) ==
  /\ viewer[v].pc \in {"hitSet", "expiredSet"}
  /\ \E rejects \in BOOLEAN :
       /\ thumbnailCache' = IF rejects THEN thumbnailCache ELSE viewer[v].cache
       /\ cached' = IF rejects THEN cached ELSE cached \cup {"thumbnailCache"}
       /\ viewer' = [viewer EXCEPT ![v] =
            IF viewer[v].pc = "hitSet" /\ ~rejects
              THEN [@ EXCEPT !.pc = "returned", !.cache = << >>,
                             !.got = Lookup(viewer[v].cache, viewer[v].key).base64DataUrl]
              ELSE [@ EXCEPT !.pc = "fetch", !.cache = << >>, !.got = "absent",
                             !.found = IF rejects THEN "failed" ELSE @]]
  /\ UNCHANGED << albumCache, now, titles, putAt, otherVars >>

\* getThumbnailDataUrl after a hit: the payload goes to the component.
ThumbnailShown(v) ==
  /\ viewer[v].pc = "returned"
  /\ viewer' = [viewer EXCEPT ![v] = InitViewer]
  /\ UNCHANGED << thumbnailCache, albumCache, now, titles, putAt, cached, otherVars >>

\* fetchThumbnailFromApi: the payload, or null and getThumbnailDataUrl ends.
FetchThumbnailFromApi(v) ==
  /\ viewer[v].pc = "fetch"
  /\ \E ok \in BOOLEAN :
       viewer' = [viewer EXCEPT ![v] =
                    IF ok THEN [InitViewer EXCEPT !.pc = "cacheThumbnail", !.key = viewer[v].key]
                    ELSE InitViewer]
  /\ UNCHANGED << thumbnailCache, albumCache, now, titles, putAt, cached, otherVars >>

\* cacheThumbnail, first await: read the cache, then delete the stale
\* entries, make room and assign the new entry.  A rejection is caught.
CacheThumbnail(v) ==
  /\ viewer[v].pc = "cacheThumbnail"
  /\ \E rejects \in BOOLEAN :
       viewer' = [viewer EXCEPT ![v] =
                    IF rejects THEN InitViewer
                    ELSE [@ EXCEPT !.pc = "cacheThumbnailSet", !.at = now,
                                   !.cache = cacheThumbnail(thumbnailCache, viewer[v].key,
                                                            DataUrl(viewer[v].key), now)]]
  /\ UNCHANGED << thumbnailCache, albumCache, now, titles, putAt, cached, otherVars >>

\* cacheThumbnail, second await: write the object.  A rejection is caught.
CacheThumbnailSet(v) ==
  /\ viewer[v].pc = "cacheThumbnailSet"
  /\ \E rejects \in BOOLEAN :
       /\ thumbnailCache' = IF rejects THEN thumbnailCache ELSE viewer[v].cache
       /\ cached' = IF rejects THEN cached ELSE cached \cup {"thumbnailCache"}
       /\ putAt' = IF rejects THEN putAt
                   ELSE [putAt EXCEPT !.thumbnail[viewer[v].key] = viewer[v].at]
  /\ viewer' = [viewer EXCEPT ![v] = InitViewer]
  /\ UNCHANGED << albumCache, now, titles, otherVars >>

\* clearThumbnailCache: the key is removed; a rejection is caught.
ClearThumbnailCache ==
  /\ \E rejects \in BOOLEAN :
       /\ thumbnailCache' = IF rejects THEN thumbnailCache ELSE << >>
       /\ cached' = IF rejects THEN cached ELSE cached \ {"thumbnailCache"}
  /\ UNCHANGED << albumCache, now, viewer, titles, putAt, otherVars >>

\* How far around the time at which an entry of the first instant is as old
\* as an entry may get the clock is followed.
LateBy == 1

\* The instants at which something happens.
Instants ==
  {Origin} \cup {Origin + CACHE_EXPIRY_MS + d : d \in (0 - LateBy)..LateBy}

\* The instant at which an entry stored at the first instant is as old as an
\* entry may get.
AtExpiry == {Origin + CACHE_EXPIRY_MS}

\* Time passes.
Tick(instants) ==
  /\ \E t \in instants : t > now /\ now' = t
  /\ UNCHANGED << thumbnailCache, albumCache, viewer, titles, putAt, cached, otherVars >>

Entry(key, cachedAt, lastAccessedAt) ==
  [key |-> key, base64DataUrl |-> DataUrl(key),
   cachedAt |-> cachedAt, lastAccessedAt |-> lastAccessedAt]

\* The cache after thumbnails 1..n were stored in turn, a millisecond apart,
\* on the empty cache.
StoredInTurn(n) == [k \in 1..n |-> Entry(k, k, k)]

\* The same for a full cache, but thumbnail 11 was stored in the millisecond
\* of thumbnail 10, thumbnail 10 was stored a second time a millisecond later
\* (by the other surface, which had missed it too) and thumbnail 11 was read
\* in that millisecond: 10 keeps its place before 11, and is the younger.
StoredWithOverwrite ==
  [k \in 1..MAX_CACHE_SIZE |->
     IF k = 10 THEN Entry(10, 11, 11)
     ELSE IF k = 11 THEN Entry(11, 10, 11)
     ELSE Entry(k, k, k)]

\* The caches the surfaces start from.
Seeds == {StoredInTurn(MAX_CACHE_SIZE - 1), StoredWithOverwrite}

\* When the key was stored in the cache, if it is there.
StoredAt(cache, key) == IF Has(cache, key) THEN Lookup(cache, key).cachedAt ELSE Never

ViewInit(seeds) ==
  /\ uploadQueue = 0
  /\ prev = [j \in Jobs |-> 0]
  /\ link = [j \in Jobs |-> "pending"]
  /\ pc = [j \in Jobs |-> "idle"]
  /\ loc = [j \in Jobs |-> InitLoc]
  /\ calls = [j \in Jobs |-> <<>>]
  /\ toasts = [j \in Jobs |-> <<>>]
  /\ started = <<>>
  /\ outcome = [j \in Jobs |-> "none"]
  /\ cachedAuthToken = NoToken
  /\ minted = 0
  /\ selectedAlbumId = AppAlbumId
  /\ uploadHistory = << >>
  /\ isManuallyLoggedOut = FALSE
  /\ cached = CacheKeys
  /\ app = InitApp
  /\ silentRequests = {}
  /\ panel = InitPanel
  /\ thumbnailCache \in seeds
  /\ albumCache = << >>
  /\ now = Origin
  /\ viewer = [v \in Surfaces |-> InitViewer]
  /\ titles = InitTitles
  /\ putAt = [thumbnail |-> [k \in ThumbKeys |-> StoredAt(thumbnailCache, k)], album |-> Never]
  /\ surface = [s \in Surfaces |-> Closed]
  /\ image = NoImage
  /\ credential = NoCredential
  /\ display = NoDisplay
  /\ aggregator = NoAggregator

CacheInit == ViewInit(Seeds)

\* The surfaces load thumbnails through the cache while time passes, and a
\* logout wipes the cache.
CacheNext ==
  \/ \E v \in Surfaces :
       \/ \E key \in ThumbKeys : GetCachedThumbnail(v, key)
       \/ GetCachedThumbnailSet(v)
       \/ ThumbnailShown(v)
       \/ FetchThumbnailFromApi(v)
       \/ CacheThumbnail(v)
       \/ CacheThumbnailSet(v)
  \/ ClearThumbnailCache
  \/ Tick(AtExpiry)

CacheSpec == CacheInit /\ [][CacheNext]_vars

\* The same behaviours, for the claim about what a put evicts.
EvictionSpec == CacheInit /\ [][CacheNext]_vars

\* C22: the thumbnail cache never holds more than MAX_CACHE_SIZE entries.
C22_CacheNeverOverCapacity == Len(thumbnailCache) <= MAX_CACHE_SIZE

\* A put met a full cache, made room and stored its entry.
C22_Witness ==
  /\ Len(thumbnailCache) = MAX_CACHE_SIZE - evictCount + 1
  /\ Has(thumbnailCache, MAX_CACHE_SIZE + 1)
  /\ ~Has(thumbnailCache, 1)

\* Surface v's put has read the cache and built the object it will write.
PutReads(v) == viewer[v].pc = "cacheThumbnail" /\ viewer'[v].pc = "cacheThumbnailSet"

\* No entry of the cache is older than the cache lets an entry get.
Unexpired(cache, t) == \A i \in DOMAIN cache : t - cache[i].cachedAt <= CACHE_EXPIRY_MS

\* Entry i was read less recently than entry j, or as recently and its key
\* was inserted before j's.
LessRecent(cache, i, j) ==
  \/ cache[i].lastAccessedAt < cache[j].lastAccessedAt
  \/ cache[i].lastAccessedAt = cache[j].lastAccessedAt /\ i <= j

\* C23: a put on a cache of at least 100 unexpired entries removes exactly
\* the 10 entries read least recently, entries read at the same time going in
\* the order of their insertion; an entry with the largest last-accessed time
\* stays, every entry that stays is unchanged, and the new entry is stored
\* with the current time as its created and its last-accessed time.
C23_PutEvictsLeastRecentlyRead ==
  [][\A v \in Surfaces :
       PutReads(v) /\ Len(thumbnailCache) >= 100 /\ Unexpired(thumbnailCache, now) =>
         LET old == thumbnailCache
             new == viewer'[v].cache
             key == viewer[v].key
             gone == {i \in DOMAIN old : old[i].key # key /\ ~Has(new, old[i].key)}
             own == {i \in DOMAIN old : old[i].key = key}
         IN /\ \E removed \in {gone, gone \cup own} :
                 /\ Cardinality(removed) = 10
                 /\ \A i \in removed : \A j \in DOMAIN old \ removed : LessRecent(old, i, j)
                 /\ \E j \in DOMAIN old \ removed :
                      \A i \in DOMAIN old : old[j].lastAccessedAt >= old[i].lastAccessedAt
                 /\ \A j \in DOMAIN old \ removed :
                      old[j].key # key => Has(new, old[j].key) /\ Lookup(new, old[j].key) = old[j]
                 /\ Len(new) = Cardinality((DOMAIN old \ removed) \ own) + 1
            /\ Has(new, key)
            /\ Lookup(new, key) = [key |-> key, base64DataUrl |-> DataUrl(key),
                                   cachedAt |-> now, lastAccessedAt |-> now]]_vars

\* A put on the full cache in which thumbnails 10 and 11 were read last at the
\* same time has removed 10, whose key is the older, and kept 11.
C23_Witness ==
  \E v \in Surfaces :
    /\ viewer[v].pc = "cacheThumbnailSet"
    /\ viewer[v].key = MAX_CACHE_SIZE + 1
    /\ Len(viewer[v].cache) = MAX_CACHE_SIZE - 10 + 1
    /\ ~Has(viewer[v].cache, 10)
    /\ Has(viewer[v].cache, 11)

\* Surface v's get has written the cache back and returns the payload.
HitReturns(v) == viewer[v].pc = "hitSet" /\ viewer'[v].pc = "returned"

\* C25: a get that hits leaves the stored cache as it was but for the
\* last-accessed time of the entry it hit, which becomes the time of the get.
C25_HitOnlyTouchesItsEntry ==
  [][\A v \in Surfaces :
       HitReturns(v) =>
         /\ DOMAIN thumbnailCache' = DOMAIN thumbnailCache
         /\ \A i \in DOMAIN thumbnailCache :
              thumbnailCache'[i] =
                IF thumbnailCache[i].key = viewer[v].key
                  THEN [thumbnailCache[i] EXCEPT !.lastAccessedAt = viewer[v].at]
                  ELSE thumbnailCache[i]]_vars

\* ------------------------------------------------------ the album title cache
\* cacheAlbumTitle, first await: read the cache and assign the entry.  A
\* rejection is logged and thrown again.
CacheAlbumTitle ==
  /\ titles.pc = "idle"
  /\ \E rejects \in BOOLEAN :
       titles' = IF rejects THEN InitTitles
                 ELSE [InitTitles EXCEPT
                         !.pc = "cacheAlbumSet", !.at = now,
                         !.cache = Assign(albumCache,
                                          [key |-> AppAlbumId, name |-> MEME_PHOTO_ALBUM_NAME,
                                           lastUpdated |-> now])]
  /\ UNCHANGED << thumbnailCache, albumCache, now, viewer, putAt, cached, otherVars >>

\* cacheAlbumTitle, second await: write the object.
CacheAlbumTitleSet ==
  /\ titles.pc = "cacheAlbumSet"
  /\ \E rejects \in BOOLEAN :
       /\ albumCache' = IF rejects THEN albumCache ELSE titles.cache
       /\ cached' = IF rejects THEN cached ELSE cached \cup {"albumCache"}
       /\ putAt' = IF rejects THEN putAt ELSE [putAt EXCEPT !.album = titles.at]
  /\ titles' = InitTitles
  /\ UNCHANGED << thumbnailCache, now, viewer, otherVars >>

\* getAlbumTitle: one read; null for no entry, a stale entry or a rejection.
GetAlbumTitle ==
  /\ titles.pc = "idle"
  /\ \E rejects \in BOOLEAN :
       LET found == IF rejects THEN "failed"
                    ELSE IF ~Has(albumCache, AppAlbumId) THEN "miss"
                    ELSE IF Stale(now - Lookup(albumCache, AppAlbumId).lastUpdated) THEN "expired"
                    ELSE "hit"
       IN titles' = [InitTitles EXCEPT
                       !.pc = "titleReturned", !.found = found, !.at = now,
                       !.got = IF found = "hit" THEN Lookup(albumCache, AppAlbumId).name
                               ELSE "absent"]
  /\ UNCHANGED << thumbnailCache, albumCache, now, viewer, putAt, cached, otherVars >>

\* The caller has the title, or null.
TitleReturned ==
  /\ titles.pc = "titleReturned"
  /\ titles' = InitTitles
  /\ UNCHANGED << thumbnailCache, albumCache, now, viewer, putAt, cached, otherVars >>

\* clearAlbumCache: the key is removed; a rejection is caught.
ClearAlbumCache ==
  /\ \E rejects \in BOOLEAN :
       /\ albumCache' = IF rejects THEN albumCache ELSE << >>
       /\ cached' = IF rejects THEN cached ELSE cached \ {"albumCache"}
  /\ UNCHANGED << thumbnailCache, now, viewer, titles, putAt, otherVars >>

\* One surface loads thumbnails and album titles through the caches over the
\* days in which the entries grow stale.
TtlNext ==
  \/ GetCachedThumbnail("popup", MAX_CACHE_SIZE + 1)
  \/ GetCachedThumbnailSet("popup")
  \/ ThumbnailShown("popup")
  \/ FetchThumbnailFromApi("popup")
  \/ CacheThumbnail("popup")
  \/ CacheThumbnailSet("popup")
  \/ ClearThumbnailCache
  \/ CacheAlbumTitle
  \/ CacheAlbumTitleSet
  \/ GetAlbumTitle
  \/ TitleReturned
  \/ ClearAlbumCache
  \/ Tick(Instants)

\* Nothing is cached yet.
TtlInit == ViewInit({<< >>})

TtlSpec == TtlInit /\ [][TtlNext]_vars

\* The time-to-live the caches are said to have: 7 days.
SevenDays == 7 * 24 * 60 * 60 * 1000

\* Surface v's get of a thumbnail has read the cache.
ThumbGetReads(v) == viewer[v].pc = "idle" /\ viewer'[v].pc # "idle"

\* Surface v's get of a thumbnail returns.
ThumbGetReturns(v) == viewer[v].got = "none" /\ viewer'[v].got # "none"

\* The get of the album title returns.
TitleGetReturns == titles.pc = "idle" /\ titles'.pc = "titleReturned"

\* C24 as stated: a get returns absent exactly when the key was never put or
\* the time since it was put exceeds 7 days, for thumbnails and album titles.
C24_AbsentExactlyNeverPutOrStale ==
  [][/\ \A v \in Surfaces :
          ThumbGetReturns(v) =>
            LET T == putAt.thumbnail[viewer'[v].key]
            IN viewer'[v].got = "absent" <=> (T = Never \/ viewer'[v].at - T > SevenDays)
     /\ TitleGetReturns =>
          (titles'.got = "absent" <=>
             (putAt.album = Never \/ titles'.at - putAt.album > SevenDays))]_vars

\* C24, amended: a get returns absent exactly when a storage call of the get
\* failed, the cache it read held no entry for the key, or the time since the
\* entry was put exceeds 7 days; otherwise it returns what was put.
C24_AbsentWhenNotStoredStaleOrFailed ==
  [][/\ \A v \in Surfaces :
          /\ ThumbGetReads(v) =>
               \/ viewer'[v].found = "failed"
               \/ viewer'[v].found = "miss" <=> ~Has(thumbnailCache, viewer'[v].key)
          /\ ThumbGetReturns(v) =>
               LET T == putAt.thumbnail[viewer'[v].key]
               IN /\ viewer'[v].got = "absent" <=>
                       \/ viewer'[v].found \in {"failed", "miss"}
                       \/ viewer'[v].at - T > SevenDays
                  /\ viewer'[v].got # "absent" => viewer'[v].got = DataUrl(viewer'[v].key)
     /\ TitleGetReturns =>
          /\ titles'.found = "failed" \/ (titles'.found = "miss" <=> ~Has(albumCache, AppAlbumId))
          /\ titles'.got = "absent" <=>
               \/ titles'.found \in {"failed", "miss"}
               \/ titles'.at - putAt.album > SevenDays
          /\ titles'.got # "absent" => titles'.got = MEME_PHOTO_ALBUM_NAME]_vars

\* The thumbnail put at T was returned by a read at T + 7 days - 1 ms, and
\* the album title put at T is absent for a read at T + 7 days + 1 ms.
C24_Witness ==
  /\ viewer["popup"].pc = "returned"
  /\ viewer["popup"].got = DataUrl(viewer["popup"].key)
  /\ viewer["popup"].at - putAt.thumbnail[viewer["popup"].key] = SevenDays - 1
  /\ titles.pc = "titleReturned"
  /\ titles.got = "absent"
  /\ titles.found = "expired"
  /\ titles.at - putAt.album = SevenDays + 1

\* ------------------------------------------ the surfaces' history component
\* The component mounts: its effects start fetchRecords, whose storage read
\* is now under way, and register handleStorageChange.
Mount(s) ==
  /\ surface[s].pc = "closed"
  /\ surface' = [surface EXCEPT ![s] = [Closed EXCEPT !.pc = "reading"]]
  /\ UNCHANGED << cacheVars, cached, jobVars, cachedAuthToken, minted, selectedAlbumId,
                  uploadHistory, isManuallyLoggedOut, app, silentRequests, panel >>

\* getUploadHistory: the store answers the read with what it holds; a
\* rejection is caught and [] returned.
GetUploadHistory(s) ==
  /\ surface[s].pc = "reading"
  /\ \E rejects \in BOOLEAN :
       surface' = [surface EXCEPT ![s].pc = "resolved",
                                  ![s].history = IF rejects THEN << >> ELSE uploadHistory]
  /\ UNCHANGED << cacheVars, cached, jobVars, cachedAuthToken, minted, selectedAlbumId,
                  uploadHistory, isManuallyLoggedOut, app, silentRequests, panel >>

\* fetchRecords after its await: setRecords(history), setIsLoading(false).
FetchRecords(s) ==
  /\ surface[s].pc = "resolved"
  /\ surface' = [surface EXCEPT ![s].pc = "shown",
                                ![s].records = surface[s].history,
                                ![s].history = << >>]
  /\ UNCHANGED << cacheVars, cached, jobVars, cachedAuthToken, minted, selectedAlbumId,
                  uploadHistory, isManuallyLoggedOut, app, silentRequests, panel >>

\* handleStorageChange: the next change event is delivered and its new value
\* shown.
HandleStorageChange(s) ==
  /\ surface[s].pc # "closed"
  /\ surface[s].inbox # << >>
  /\ surface' = [surface EXCEPT ![s].records = Head(surface[s].inbox),
                                ![s].inbox = Tail(surface[s].inbox)]
  /\ UNCHANGED << cacheVars, cached, jobVars, cachedAuthToken, minted, selectedAlbumId,
                  uploadHistory, isManuallyLoggedOut, app, silentRequests, panel >>

\* How many records the history has when the surfaces open.
StoredBefore == 2

SurfaceInit ==
  /\ uploadQueue = 0
  /\ prev = [j \in Jobs |-> 0]
  /\ link = [j \in Jobs |-> "pending"]
  /\ pc = [j \in Jobs |-> "idle"]
  /\ loc = [j \in Jobs |-> InitLoc]
  /\ calls = [j \in Jobs |-> <<>>]
  /\ toasts = [j \in Jobs |-> <<>>]
  /\ started = <<>>
  /\ outcome = [j \in Jobs |-> "none"]
  /\ cachedAuthToken = NoToken
  /\ minted = 0
  /\ selectedAlbumId = AppAlbumId
  /\ uploadHistory = EarlierHistory(StoredBefore)
  /\ isManuallyLoggedOut = FALSE
  /\ cached = CacheKeys
  /\ app = InitApp
  /\ silentRequests = {}
  /\ panel = InitPanel
  /\ ViewAtRest

\* The popup and the side panel open while records are deleted.
SurfaceNext ==
  \/ \E s \in Surfaces :
       \/ Mount(s)
       \/ GetUploadHistory(s)
       \/ FetchRecords(s)
       \/ HandleStorageChange(s)
  \/ \E k \in 1..StoredBefore : DeleteGet(Earlier(k).id)
  \/ DeleteSet

\* A storage read is answered, a promise's continuation runs and an event is
\* delivered, each in the end.
SurfaceFairness ==
  \A s \in Surfaces :
    /\ WF_vars(GetUploadHistory(s))
    /\ WF_vars(FetchRecords(s))
    /\ WF_vars(HandleStorageChange(s))

SurfaceSpec == SurfaceInit /\ [][SurfaceNext]_vars /\ SurfaceFairness

\* The surface shows its records and no change event is on its way to it.
Settled(s) == surface[s].pc = "shown" /\ surface[s].inbox = << >>

\* C26: the writes of this system stop by themselves; from some point on
\* every surface that is open and has been delivered every change event
\* shows exactly the stored uploadHistory.
C26_SurfacesShowStoredHistory ==
  <>[](\A s \in Surfaces : Settled(s) => surface[s].records = uploadHistory)

\* ------------------------------------------------------ the image processor
\* 0xFFE1, the marker of the Exif segment; 0xFFDA, start of scan.
JPEG_APP1 == 65505

JPEG_SOS == 65498

\* data[offset]: bytes are counted from 0; undefined past the end.
At(data, offset) == data[offset + 1]

\* data[offset] inside << and |: undefined counts as 0.
AtOrZero(data, offset) == IF offset < Len(data) THEN At(data, offset) ELSE 0

Min(a, b) == IF a < b THEN a ELSE b

\* data.slice(start, end)
Slice(data, start, end) == SubSeq(data, start + 1, Min(end, Len(data)))

\* Variant: the rest of the file without the marker it begins with.
SliceAfterMarker(data, offset) == Slice(data, offset + 2, Len(data))

\* data.slice(offset): the rest of the file.
SliceFrom(data, offset) == Slice(data, offset, Len(data))

\* 'Exif'
ExifChars == << 69, 120, 105, 102 >>

\* String.fromCharCode(...data.slice(offset + 4, offset + 10)).startsWith('Exif')
HasExifHeader(data, offset) == Slice(data, offset + 4, offset + 8) = ExifChars

\* The while loop of replaceJpegExifWithCurrentTime from the given offset on:
\* the segments it pushes, joined.
RECURSIVE CopySegments(_, _)
CopySegments(data, offset) ==
  IF offset >= Len(data) THEN << >>
  ELSE IF At(data, offset) # 255 THEN CopySegments(data, offset + 1)
  ELSE
    LET marker == 255 * 256 + AtOrZero(data, offset + 1)
    IN IF marker = 65497 \/ marker = JPEG_SOS THEN SliceFrom(data, offset)
       ELSE IF marker >= 65488 /\ marker <= 65495
         THEN Slice(data, offset, offset + 2) \o CopySegments(data, offset + 2)
       ELSE IF offset + 4 > Len(data) THEN << >>
       ELSE
         LET segmentLength == At(data, offset + 2) * 256 + At(data, offset + 3)
             segmentEnd == offset + 2 + segmentLength
         IN IF segmentEnd > Len(data) THEN SliceFrom(data, offset)
            ELSE IF marker = JPEG_APP1 /\ HasExifHeader(data, offset)
              THEN CopySegments(data, segmentEnd)
            ELSE Slice(data, offset, segmentEnd) \o CopySegments(data, segmentEnd)

\* DataView.setUint16 / setUint32 with littleEndian, and setUint16 without.
LE16(n) == << n % 256, n \div 256 >>

LE32(n) == << n % 256, (n \div 256) % 256, (n \div 65536) % 256, n \div 16777216 >>

BE16(n) == << n \div 256, n % 256 >>

\* String(n) as character codes.
RECURSIVE CharCodes(_)
CharCodes(n) == IF n < 10 THEN << 48 + n >> ELSE CharCodes(n \div 10) \o << 48 + (n % 10) >>

\* String(n).padStart(2, '0')
Pad2(n) == IF n < 10 THEN << 48 >> \o CharCodes(n) ELSE CharCodes(n)

\* formatExifDateTime: "YYYY:MM:DD HH:MM:SS" from the local fields of a Date
\* (getMonth counts from 0).
formatExifDateTime(date) ==
  CharCodes(date.year) \o << 58 >> \o Pad2(date.month + 1) \o << 58 >> \o Pad2(date.day)
    \o << 32 >> \o Pad2(date.hours) \o << 58 >> \o Pad2(date.minutes) \o << 58 >> \o Pad2(date.seconds)

\* One entry of the EXIF IFD: tag, type ASCII, count, offset of the value.
AsciiEntry(tag, count, valueOffset) ==
  LE16(tag) \o LE16(2) \o LE32(count) \o LE32(valueOffset)

\* createMinimalExifSegment: APP1 marker, length, "Exif\0\0", TIFF header,
\* IFD0 with the pointer to the EXIF IFD, the EXIF IFD with three date tags,
\* and the date three times.
createMinimalExifSegment(date) ==
  LET dateTimeBytes == formatExifDateTime(date) \o << 0 >>
      ifd0Offset == 8
      ifd0Size == 2 + 1 * 12 + 4
      exifIfdOffset == ifd0Offset + ifd0Size
      exifIfdSize == 2 + 3 * 12 + 4
      dateTimeDataOffset == exifIfdOffset + exifIfdSize
      tiffDataSize == dateTimeDataOffset + Len(dateTimeBytes) * 3
      app1DataSize == 6 + tiffDataSize
  IN << 255, 225 >> \o BE16(app1DataSize + 2) \o ExifChars \o << 0, 0 >>
       \o << 73, 73 >> \o LE16(42) \o LE32(ifd0Offset)
       \o LE16(1) \o LE16(34665) \o LE16(4) \o LE32(1) \o LE32(exifIfdOffset) \o LE32(0)
       \o LE16(3)
       \o AsciiEntry(36867, Len(dateTimeBytes), dateTimeDataOffset)
       \o AsciiEntry(36868, Len(dateTimeBytes), dateTimeDataOffset + Len(dateTimeBytes))
       \o AsciiEntry(306, Len(dateTimeBytes), dateTimeDataOffset + Len(dateTimeBytes) * 2)
       \o LE32(0)
       \o dateTimeBytes \o dateTimeBytes \o dateTimeBytes

Blob(type, data) == [type |-> type, data |-> data]

\* replaceJpegExifWithCurrentTime: throws unless the data begins FF D8 (and
\* when blob.arrayBuffer() rejects); else SOI, the new segment and the
\* segments the loop copies, as an image/jpeg blob.
replaceJpegExifWithCurrentTime(blob, date, rejects) ==
  LET data == blob.data
  IN IF rejects \/ AtOrZero(data, 0) # 255 \/ Len(data) < 2 \/ AtOrZero(data, 1) # 216
       THEN [ok |-> FALSE, blob |-> blob]
       ELSE [ok |-> TRUE,
             blob |-> Blob("image/jpeg",
                           << 255, 216 >> \o createMinimalExifSegment(date)
                             \o CopySegments(data, 2))]

\* Variant: every image type is rewritten.
IsImage(mimeType) == mimeType \in {"image/jpeg", "image/png"}

\* mimeType === 'image/jpeg'
IsJpeg(mimeType) == mimeType = "image/jpeg"

\* stripExifMetadata: a JPEG is rewritten; when the rewrite throws, and for
\* every other type, the blob it was given is returned.
stripExifMetadata(blob, date, rejects) ==
  IF IsJpeg(blob.type)
    THEN LET r == replaceJpegExifWithCurrentTime(blob, date, rejects)
         IN IF r.ok THEN r.blob ELSE blob
    ELSE blob

\* The pieces the downloaded files are made of: segments with a length
\* field, the Exif segment, a restart marker, the scan with its data and the
\* end marker, the end marker alone; and what broken files hold: a byte that
\* is no marker where a marker is due, a segment whose length points past the
\* end of the file, and a segment header cut off by the end of the file.
Piece(kind, bytes) == [kind |-> kind, bytes |-> bytes]

Pieces ==
  { Piece("segment", << 255, 224, 0, 4, 74, 70 >>),
    Piece("exif", << 255, 225, 0, 8 >> \o ExifChars \o << 0, 0 >>),
    Piece("segment", << 255, 225, 0, 6, 104, 116, 116, 112 >>),
    Piece("segment", << 255, 208 >>),
    Piece("scan", << 255, 218, 0, 2, 127, 255, 0, 255, 217 >>),
    Piece("end", << 255, 217 >>),
    Piece("junk", << 0 >>),
    Piece("overlong", << 255, 224, 0, 64, 1 >>),
    Piece("cut", << 255, 224, 0 >>) }

\* How many pieces follow the first two bytes of a file.
MaxPieces == 3

RECURSIVE Joined(_)
Joined(parts) == IF parts = << >> THEN << >> ELSE Head(parts).bytes \o Joined(Tail(parts))

\* The files: with and without FF D8 in front.
Files ==
  UNION { [1..n -> Pieces] : n \in 0..MaxPieces }

Dates ==
  << [year |-> 2026, month |-> 10, day |-> 4, hours |-> 9, minutes |-> 5, seconds |-> 0],
     [year |-> 2026, month |-> 11, day |-> 31, hours |-> 23, minutes |-> 59, seconds |-> 59] >>

\* downloadImage has returned a blob of some type: a file of the pieces,
\* after FF D8 or without it.
ImageDownloaded ==
  /\ image.pc = "none"
  /\ \E parts \in Files, soi \in BOOLEAN, type \in {"image/jpeg", "image/png"} :
       image' = [NoImage EXCEPT
                   !.pc = "downloaded", !.parts = parts,
                   !.blob = Blob(type, (IF soi THEN << 255, 216 >> ELSE << >>) \o Joined(parts))]
  /\ UNCHANGED << thumbnailCache, albumCache, now, viewer, titles, putAt, cached, surface,
                  jobVars, cachedAuthToken, minted, selectedAlbumId, uploadHistory,
                  isManuallyLoggedOut, app, silentRequests, panel,
                  credential, display, aggregator >>

\* const processedBlob = await stripExifMetadata(blob)
StripExif ==
  /\ image.pc = "downloaded"
  /\ \E rejects \in BOOLEAN, d \in DOMAIN Dates :
       image' = [image EXCEPT
                   !.pc = "processed", !.date = d,
                   !.raised = IsJpeg(image.blob.type)
                                /\ ~replaceJpegExifWithCurrentTime(image.blob, Dates[d], rejects).ok,
                   !.processedBlob = stripExifMetadata(image.blob, Dates[d], rejects)]
  /\ UNCHANGED << thumbnailCache, albumCache, now, viewer, titles, putAt, cached, surface,
                  jobVars, cachedAuthToken, minted, selectedAlbumId, uploadHistory,
                  isManuallyLoggedOut, app, silentRequests, panel,
                  credential, display, aggregator >>

ImageInit == Init

ImageNext == ImageDownloaded \/ StripExif

ImageSpec == ImageInit /\ [][ImageNext]_vars

\* stripExifMetadata returns.
StripReturns == image.pc = "downloaded" /\ image'.pc = "processed"

\* The file begins FF D8.
BeginsFFD8(data) == Len(data) >= 2 /\ data[1] = 255 /\ data[2] = 216

\* C27: for a type other than image/jpeg, for bytes that do not begin FF D8
\* and when the rewrite raises, the blob handed on is the downloaded blob.
C27_RewriteHandsOnTheOriginal ==
  [][StripReturns /\ (\/ image.blob.type # "image/jpeg"
                      \/ ~BeginsFFD8(image.blob.data)
                      \/ image'.raised) =>
       image'.processedBlob = image.blob]_vars

\* A file served as image/jpeg that does not begin FF D8 was handed on as it
\* was downloaded.
C27_Witness ==
  /\ image.pc = "processed"
  /\ image.blob.type = "image/jpeg"
  /\ image.blob.data # << >>
  /\ ~BeginsFFD8(image.blob.data)
  /\ image.raised
  /\ image.processedBlob = image.blob

\* What is to be kept of the pieces after FF D8: every piece but the Exif
\* segments that come before the scan, the end marker or a broken segment.
RECURSIVE Kept(_)
Kept(parts) ==
  IF parts = << >> THEN << >>
  ELSE IF Head(parts).kind \in {"scan", "end", "overlong", "cut"} THEN Joined(parts)
  ELSE IF Head(parts).kind = "exif" THEN Kept(Tail(parts))
  ELSE Head(parts).bytes \o Kept(Tail(parts))

\* C28: for every file that begins FF D8 the output is FF D8, the new
\* metadata block, then the file from offset 2 without its Exif segments
\* and with every other byte in place.
C28_OnlyExifSegmentsRemoved ==
  [][StripReturns /\ image.blob.type = "image/jpeg" /\ BeginsFFD8(image.blob.data)
       /\ ~image'.raised =>
       image'.processedBlob.data =
         << 255, 216 >> \o createMinimalExifSegment(Dates[image'.date]) \o Kept(image.parts)]_vars

\* Where the scan begins in a file of well-formed segments: the offset of
\* the first FF DA found going from segment to segment, or the length of
\* the file.
RECURSIVE ScanOffset(_, _)
ScanOffset(data, offset) ==
  IF offset + 2 > Len(data) THEN Len(data)
  ELSE IF data[offset + 1] = 255 /\ data[offset + 2] = 218 THEN offset
  ELSE IF data[offset + 1] = 255 /\ data[offset + 2] \in 208..216 THEN ScanOffset(data, offset + 2)
  ELSE IF offset + 4 > Len(data) THEN Len(data)
  ELSE ScanOffset(data, offset + 2 + data[offset + 3] * 256 + data[offset + 4])

ScanRegion(data) == SubSeq(data, ScanOffset(data, 0) + 1, Len(data))

\* FF D8, segments with a correct length, then the scan up to the end marker.
ValidContainer(parts, data) ==
  /\ BeginsFFD8(data)
  /\ parts # << >>
  /\ parts[Len(parts)].kind = "scan"
  /\ \A i \in 1..(Len(parts) - 1) : parts[i].kind \in {"segment", "exif"}

\* C29: for a valid file the bytes from FF DA to the end of the file are the
\* same in the input and in the output.
C29_ScanRegionUntouched ==
  [][StripReturns /\ image.blob.type = "image/jpeg" /\ ~image'.raised
       /\ ValidContainer(image.parts, image.blob.data) =>
       /\ ScanRegion(image'.processedBlob.data) = ScanRegion(image.blob.data)
       /\ ScanRegion(image.blob.data) # << >>]_vars

\* A valid file with an Exif segment was rewritten.
C29_Witness ==
  /\ image.pc = "processed"
  /\ ~image.raised
  /\ image.blob.type = "image/jpeg"
  /\ ValidContainer(image.parts, image.blob.data)
  /\ \E i \in DOMAIN image.parts : image.parts[i].kind = "exif"
  /\ image.processedBlob # image.blob

\* ------------------------------------------------- album resolution (C30)
\* What job j read as the stored selection, once chrome.storage.sync.get has
\* returned.
StoredRead(j) == {calls[j][i].albumId : i \in {k \in CallIndexes(j, "storage.sync.get") :
                                                  calls[j][k].thrown = NoError.name}}

\* The ids getOrCreateMemePhotoAlbum has returned to job j.
CanonicalIds(j) ==
  {calls[j][i].albumId : i \in {k \in CallIndexes(j, "getOrCreateMemePhotoAlbum") :
                                   calls[j][k].thrown = NoError.name}}

\* Job j read a stored id that is not the one getOrCreateMemePhotoAlbum
\* returned.
Mismatch(j) ==
  \E stored \in StoredRead(j), id \in CanonicalIds(j) : stored # NoAlbum /\ stored # id

\* Phase B of job j is, and was, given albumId, and the stored selection is
\* selection when job j enters phase B.
PhaseBWith(j, albumId, selection) ==
  /\ \A i \in CallIndexes(j, "createMediaItem") : calls[j][i].albumId = albumId
  /\ pc[j] = "createMediaItem" => loc[j].albumId = albumId /\ selectedAlbumId = selection

PersistFailed(j) ==
  \E i \in CallIndexes(j, "storage.sync.set") : calls[j][i].thrown # NoError.name

\* The half of C30 about a job that finds nothing stored.
NothingStoredNothingDone(j) ==
  NoAlbum \in StoredRead(j) =>
    /\ Count(j, "getOrCreateMemePhotoAlbum") = 0
    /\ Count(j, "storage.sync.set") = 0
    /\ Count(j, "storage.sync.remove") = 0
    /\ PhaseBWith(j, NoAlbum, NoAlbum)

\* One upload job, from each stored selection.
AlbumNext ==
  \/ OnClicked(1)
  \/ DownloadImage(1)
  \/ JobStep(1)

AlbumSpec == Init /\ [][AlbumNext]_vars

AlbumSteps == {"storage.sync.get", "getOrCreateMemePhotoAlbum",
               "storage.sync.set", "storage.sync.remove"}

\* The calls of job j's album resolution that threw.
AlbumErrors(j) ==
  {i \in DOMAIN calls[j] : calls[j][i].step \in AlbumSteps /\ calls[j][i].thrown # "none"}

\* C31: when a call of the album resolution fails (the album API, or a read
\* or write of the stored selection), the job does not fail there: phase B
\* runs with no album and the stored selection is cleared.
C31_AlbumErrorsFallBack ==
  \A j \in Jobs :
    AlbumErrors(j) # {} =>
      /\ \A i \in AlbumErrors(j) : ~Fatal(j, i)
      /\ PhaseBWith(j, NoAlbum, NoAlbum)

\* ------------------------------------------------ the credential step (C32)
CredentialLabels == {"getAuthToken", "getAuthTokenInteractive"}

\* C32: a job asks for a credential silently first and, when that yields
\* none, interactively; it fails at the credential step, before any download
\* or remote call, only when the interactive request yields none as well.
C32_FailsOnlyAfterInteractive ==
  [][\A j \in Jobs :
       /\ pc[j] \notin CredentialLabels /\ pc'[j] \in CredentialLabels => pc'[j] = "getAuthToken"
       /\ pc[j] = "getAuthToken" /\ pc'[j] # pc[j] =>
            pc'[j] \in {"downloadImage", "getAuthTokenInteractive"}
       /\ pc[j] \in CredentialLabels /\ pc'[j] \in FailLabels =>
            /\ pc[j] = "getAuthTokenInteractive"
            /\ \A i \in DOMAIN calls'[j] : calls'[j][i].step = "getAuthToken"]_vars

\* ------------------------------------------- token validation (C33)
\* The two copies of the background worker: src/background/index.ts and
\* unnamed/part_001, which validates a silent token before it returns it.
Workers == {"index.ts", "part_001"}

NaN == 0 - 1

\* The leading decimal digits of s.
RECURSIVE LeadingDigits(_)
LeadingDigits(s) ==
  IF s = << >> \/ ~IsDigit(s[1]) THEN << >>
  ELSE << s[1] >> \o LeadingDigits(Tail(s))

\* parseInt(text, 10) for a text without sign or leading blanks; undefined
\* is given as the empty text.
ParseInt(text) == IF LeadingDigits(text) = << >> THEN NaN ELSE Number(LeadingDigits(text))

\* A reply of the tokeninfo endpoint: the fetch rejects, or answers with a
\* status and a body whose expires_in is the given text (empty: no such field).
TokenInfo(fetch, status, expires_in) ==
  [fetch |-> fetch, status |-> status, expires_in |-> expires_in]

ExpiresInTexts ==
  { << >>, << "a", "b", "c" >>, << "0" >>, << "2", "9", "9" >>, << "3", "0", "0" >>,
    << "3", "5", "9", "9" >>, << "3", "6", "0", "0", "s" >>, << "6", "0" >>,
    << "3", "0", "1" >> }

TokenInfoReplies ==
  { TokenInfo("rejected", 0, << >>), TokenInfo("response", 400, << >>) } \cup
  { TokenInfo("response", 200, e) : e \in ExpiresInTexts }

\* validateToken
validateToken(reply) ==
  IF reply.fetch = "rejected" THEN FALSE
  ELSE IF ~ResponseOk(reply.status) THEN FALSE
  ELSE LET expiresIn == ParseInt(reply.expires_in)
       IN ~(expiresIn = NaN \/ expiresIn < 300)

SilentToken == 1
FreshToken == 2

\* handleImageUpload calls getAuthToken.
GetAuthTokenCalled ==
  /\ credential.pc = "none"
  /\ \E worker \in Workers :
       credential' = [NoCredential EXCEPT !.pc = "silent", !.worker = worker]
  /\ UNCHANGED << thumbnailCache, albumCache, now, viewer, titles, putAt, cached, surface,
                  jobVars, cachedAuthToken, minted, selectedAlbumId, uploadHistory,
                  isManuallyLoggedOut, app, silentRequests, panel, image, display, aggregator >>

\* chrome.identity.getAuthToken({ interactive: false }) has settled.  A
\* rejection goes to the catch of either copy; with no token index.ts asks
\* interactively and part_001 returns null; with a token index.ts returns
\* it and part_001 validates it.
SilentAnswered ==
  /\ credential.pc = "silent"
  /\ \E rejects \in BOOLEAN, t \in {NoToken, SilentToken} :
       credential' =
         [credential EXCEPT
            !.asked = Append(@, "silent"),
            !.token = IF rejects THEN NoToken ELSE t,
            !.result = IF ~rejects /\ t # NoToken /\ credential.worker = "index.ts"
                         THEN t ELSE NoToken,
            !.pc = IF rejects THEN "returned"
                   ELSE IF credential.worker = "index.ts"
                     THEN (IF t # NoToken THEN "returned" ELSE "interactive")
                   ELSE (IF t # NoToken THEN "validateToken" ELSE "returned")]
  /\ UNCHANGED << thumbnailCache, albumCache, now, viewer, titles, putAt, cached, surface,
                  jobVars, cachedAuthToken, minted, selectedAlbumId, uploadHistory,
                  isManuallyLoggedOut, app, silentRequests, panel, image, display, aggregator >>

\* part_001: const isValid = await validateToken(result.token)
ValidateToken ==
  /\ credential.pc = "validateToken"
  /\ \E reply \in TokenInfoReplies :
       credential' =
         [credential EXCEPT
            !.reported = IF reply.fetch = "rejected" \/ ~ResponseOk(reply.status)
                           THEN "failed" ELSE "expires_in",
            !.expires_in = reply.expires_in,
            !.result = IF validateToken(reply) THEN credential.token ELSE NoToken,
            !.pc = IF validateToken(reply) THEN "returned" ELSE "removeCachedAuthToken"]
  /\ UNCHANGED << thumbnailCache, albumCache, now, viewer, titles, putAt, cached, surface,
                  jobVars, cachedAuthToken, minted, selectedAlbumId, uploadHistory,
                  isManuallyLoggedOut, app, silentRequests, panel, image, display, aggregator >>

\* part_001: await chrome.identity.removeCachedAuthToken({ token })
RemoveCachedAuthToken ==
  /\ credential.pc = "removeCachedAuthToken"
  /\ \E rejects \in BOOLEAN :
       credential' =
         [credential EXCEPT
            !.removed = IF rejects THEN @ ELSE @ \cup {credential.token},
            !.pc = IF rejects THEN "returned" ELSE "interactive"]
  /\ UNCHANGED << thumbnailCache, albumCache, now, viewer, titles, putAt, cached, surface,
                  jobVars, cachedAuthToken, minted, selectedAlbumId, uploadHistory,
                  isManuallyLoggedOut, app, silentRequests, panel, image, display, aggregator >>

\* chrome.identity.getAuthToken({ interactive: true }) has settled: a token
\* the provider has newly issued, none, or a rejection.
InteractiveAnswered ==
  /\ credential.pc = "interactive"
  /\ \E rejects \in BOOLEAN, t \in {NoToken, FreshToken} :
       credential' =
         [credential EXCEPT
            !.asked = Append(@, "interactive"),
            !.result = IF rejects THEN NoToken ELSE t,
            !.pc = "returned"]
  /\ UNCHANGED << thumbnailCache, albumCache, now, viewer, titles, putAt, cached, surface,
                  jobVars, cachedAuthToken, minted, selectedAlbumId, uploadHistory,
                  isManuallyLoggedOut, app, silentRequests, panel, image, display, aggregator >>

\* handleImageUpload goes on with the token getAuthToken returned, and sends
\* it to the remote API; with null it throws.
TokenUsed ==
  /\ credential.pc = "returned"
  /\ credential' =
       [credential EXCEPT
          !.sent = IF credential.result # NoToken THEN {credential.result} ELSE {},
          !.pc = IF credential.result # NoToken THEN "uploading" ELSE "failed"]
  /\ UNCHANGED << thumbnailCache, albumCache, now, viewer, titles, putAt, cached, surface,
                  jobVars, cachedAuthToken, minted, selectedAlbumId, uploadHistory,
                  isManuallyLoggedOut, app, silentRequests, panel, image, display, aggregator >>

\* The job is over, and the next click calls getAuthToken again.
JobOver ==
  /\ credential.pc \in {"uploading", "failed"}
  /\ credential' = NoCredential
  /\ UNCHANGED << thumbnailCache, albumCache, now, viewer, titles, putAt, cached, surface,
                  jobVars, cachedAuthToken, minted, selectedAlbumId, uploadHistory,
                  isManuallyLoggedOut, app, silentRequests, panel, image, display, aggregator >>

CredentialNext ==
  \/ GetAuthTokenCalled
  \/ SilentAnswered
  \/ ValidateToken
  \/ RemoveCachedAuthToken
  \/ InteractiveAnswered
  \/ TokenUsed
  \/ JobOver

CredentialSpec == Init /\ [][CredentialNext]_vars

\* The reply names an expiry of at least 300 seconds: expires_in is a decimal
\* number and not below 300.
AtLeast300(text) ==
  /\ text # << >>
  /\ \A i \in DOMAIN text : IsDigit(text[i])
  /\ Number(text) >= 300

\* getAuthToken is past the validation of its silent token.
PastValidation == credential.pc \in {"returned", "uploading", "failed"}

\* C33: the job uses a silently obtained credential only when the tokeninfo
\* reply reports expires_in of at least 300; when expires_in is missing,
\* not a number or below 300, the cached credential is revoked, an
\* interactive credential is requested and the rejected one is never sent.
C33_SilentTokenUsedOnlyIfValidated ==
  /\ credential.token # NoToken /\ credential.token \in credential.sent =>
       credential.reported = "expires_in" /\ AtLeast300(credential.expires_in)
  /\ credential.reported = "expires_in" /\ ~AtLeast300(credential.expires_in)
       /\ PastValidation =>
         /\ credential.token \in credential.removed
         /\ credential.asked = << "silent", "interactive" >>
         /\ credential.token \notin credential.sent

\* ------------------------------------------- the toasts in the tab (C34)
\* The jobs whose toasts are followed; job n's toast id stands for
\* upload-${Date.now()}, and its toasts are elements 2n - 1 and 2n.
MaxUploads == 2

NoToastId == 0

Timer(fn, arg) == [fn |-> fn, arg |-> arg]

WithId(d, toastId) == {e \in d.elements : toastId # NoToastId /\ e.toastId = toastId}

\* showToast(message, type, { duration, toastId }): a toast with the same id
\* is removed at once, the new one is appended, and every type but loading
\* is dismissed after duration.
showToast(d, type, duration, toastId) ==
  LET toast == [el |-> d.made + 1, toastId |-> toastId, type |-> type, hiding |-> FALSE]
  IN [d EXCEPT
        !.made = @ + 1,
        !.elements = (@ \ WithId(d, toastId)) \cup {toast},
        !.timers = IF duration > 0 /\ type # "loading"
                     THEN @ \cup {Timer("removeToastElement", toast.el)} ELSE @]

\* removeToastElement(toast, container): the toast fades, and leaves the
\* DOM 300 ms later.
removeToastElement(d, el) ==
  [d EXCEPT
     !.elements = {IF e.el = el THEN [e EXCEPT !.hiding = TRUE] ELSE e : e \in @},
     !.timers = @ \cup {Timer("removeChild", el)}]

\* dismissToast(toastId)
dismissToast(d, toastId) ==
  IF WithId(d, toastId) = {} THEN d
  ELSE removeToastElement(d, (CHOOSE e \in WithId(d, toastId) : TRUE).el)

\* Variant: the loading toast is shown without its failsafe timer.
showLoadingOnly(d, toastId, failsafeTimeout) == showToast(d, "loading", 0, toastId)

\* showLoading(message, toastId, failsafeTimeout = 30000)
showLoading(d, toastId, failsafeTimeout) ==
  LET s == showToast(d, "loading", 0, toastId)
  IN IF failsafeTimeout > 0
       THEN [s EXCEPT !.timers = @ \cup {Timer("dismissToast", toastId)}]
       ELSE s

\* The content script's listener, on a showToast message.
OnShowToast(d, type, toastId) ==
  IF type = "loading" /\ toastId # NoToastId
    THEN showLoading(d, toastId, 30000)
    ELSE showToast(d, type, 3000, toastId)

DisplayFrame ==
  UNCHANGED << thumbnailCache, albumCache, now, viewer, titles, putAt, cached, surface,
               jobVars, cachedAuthToken, minted, selectedAlbumId, uploadHistory,
               isManuallyLoggedOut, app, silentRequests, panel, image, credential,
               aggregator >>

\* handleImageUpload of the next job: showToastInTab(tab.id, "loading", ...).
\* The message reaches the content script, or the relay fails and the
\* failure is swallowed.
RelayShowLoading ==
  /\ display.worker = "idle"
  /\ display.job < MaxUploads
  /\ \E delivered \in BOOLEAN :
       LET toastId == display.job + 1
           d == IF delivered THEN OnShowToast(display, "loading", toastId) ELSE display
       IN display' = [d EXCEPT !.worker = "uploading", !.job = toastId,
                               !.made = 2 * toastId - 1,
                               !.shown = delivered, !.lost = FALSE]
  /\ DisplayFrame

\* dismissToastInTab(tab.id, uploadToastId), after the upload or in the
\* catch: the message is delivered or lost.
RelayDismiss ==
  /\ display.worker = "uploading"
  /\ \E delivered \in BOOLEAN, failed \in BOOLEAN :
       LET d == IF delivered THEN dismissToast(display, display.job) ELSE display
       IN display' = [d EXCEPT !.worker = IF failed THEN "catch" ELSE "done",
                               !.lost = ~delivered]
  /\ DisplayFrame

\* The success toast of a finished job, or the error toast of the click
\* listener's catch.
RelayShowResult ==
  /\ display.worker \in {"done", "catch"}
  /\ \E delivered \in BOOLEAN :
       LET type == IF display.worker = "done" THEN "success" ELSE "error"
           d == IF delivered THEN OnShowToast(display, type, NoToastId) ELSE display
       IN display' = [d EXCEPT !.worker = "idle", !.made = 2 * display.job]
  /\ DisplayFrame

\* A timer of the content script fires.
TimerFires(timer) ==
  /\ timer \in display.timers
  /\ LET d == [display EXCEPT !.timers = @ \ {timer}]
     IN display' =
          CASE timer.fn = "dismissToast" -> dismissToast(d, timer.arg)
            [] timer.fn = "removeToastElement" -> removeToastElement(d, timer.arg)
            [] OTHER -> [d EXCEPT !.elements = {e \in @ : e.el # timer.arg}]
  /\ DisplayFrame

\* The tab navigates or is closed: its toasts and timers are gone.
PageUnloads ==
  /\ display.elements # {} \/ display.timers # {}
  /\ display' = [display EXCEPT !.elements = {}, !.timers = {}]
  /\ DisplayFrame

DisplayTimers ==
  { Timer("dismissToast", id) : id \in 1..MaxUploads } \cup
  { Timer(fn, el) : fn \in {"removeToastElement", "removeChild"}, el \in 1..(2 * MaxUploads) }

DisplayNext ==
  \/ RelayShowLoading
  \/ RelayDismiss
  \/ RelayShowResult
  \/ \E timer \in DisplayTimers : TimerFires(timer)
  \/ PageUnloads

\* While the page has timers pending, one of them fires.
DisplayFairness == WF_vars(\E timer \in DisplayTimers : TimerFires(timer))

\* Nothing stored and no toast shown yet.
DisplayInit == Init /\ selectedAlbumId = NoAlbum

DisplaySpec == DisplayInit /\ [][DisplayNext]_vars /\ DisplayFairness

Loading(toastId) == {e \in display.elements : e.type = "loading" /\ e.toastId = toastId}

\* A loading toast that leaves the DOM was fading, unless the page went:
\* its dismiss message or its failsafe had called removeToastElement.
LeavesAfterFading(toastId) ==
  Loading(toastId) # {} /\ Loading(toastId)' = {} =>
    \/ \A e \in Loading(toastId) : e.hiding
    \/ display'.timers = {}

\* C34: every loading toast shown for a job leaves the tab in the end, also
\* when the dismiss message for it never arrives: it is removed through its
\* dismiss message or else through the failsafe of showLoading, whatever
\* the outcome of the job.
C34_LoadingToastIsRemoved ==
  /\ \A toastId \in 1..MaxUploads : (Loading(toastId) # {}) ~> (Loading(toastId) = {})
  /\ [][\A toastId \in 1..MaxUploads : LeavesAfterFading(toastId)]_vars

\* The loading toast of the last job was shown, its dismiss message was
\* lost, and the toast has left the tab while the page stayed.
C34_Witness ==
  /\ display.shown /\ display.lost
  /\ Loading(display.job) = {}
  /\ Timer("dismissToast", display.job) \notin display.timers
  /\ \E timer \in display.timers : timer.fn = "removeToastElement"

\* ------------------------------------------- the refreshed credential (C35)
\* The same behaviours once more, for the claim about the token after a
\* refresh.
RefreshSpec == Init /\ [][Next]_vars

\* The calls that send the job's token to the remote API.
RemoteSteps == {"uploadImageBytes", "getOrCreateMemePhotoAlbum", "createMediaItem"}

\* The refreshToken calls of job j that returned a token.
Refreshes(j) ==
  {i \in CallIndexes(j, "refreshToken") : calls[j][i].thrown = "none"}

\* Every remote call of job j after a refresh carries the token of the
\* latest refresh before it.
CarriesRefreshed(j) ==
  \A i \in Refreshes(j), k \in DOMAIN calls[j] :
    (/\ k > i
     /\ calls[j][k].step \in RemoteSteps
     /\ \A n \in Refreshes(j) : n < k => n <= i)
    => calls[j][k].token = calls[j][i].result

\* A refreshToken call that has asked for a new token has first taken the
\* expired one out of the cache.
RemovedBeforeRequested ==
  \A j \in Jobs :
    Len(calls'[j]) = Len(calls[j]) + 1 /\ calls'[j][Len(calls'[j])].step = "refreshToken" =>
      LET c == calls'[j][Len(calls'[j])]
      IN /\ c.thrown = "none" => cachedAuthToken' = c.result
         /\ c.message = RefreshFailedMessage => cachedAuthToken' # c.token

InterleaveNext ==
  \/ OnClicked(1)
  \/ DownloadImage(1)
  \/ JobStep(1)
  \/ \E id \in {Earlier(MAX_RECORDS - 1).id, Earlier(1).id} : DeleteRead(id, TRUE)
  \/ DeleteWrite(TRUE)

InterleaveSpec == LedgerInit /\ [][InterleaveNext]_vars

\* addUploadRecord of job j has returned.
Appended(j) ==
  \E i \in CallIndexes(j, "addUploadRecord") : calls[j][i].thrown = "none"

\* deleteUploadRecord has returned true.
Removed == panel.pc = "deleteReturned" /\ panel.success

\* C36: however the append of an upload job and the remove of a surface
\* interleave, once both have completed the appended record is in
\* uploadHistory and the removed record is not.
C36_NoLostUpdate ==
  Appended(1) /\ Removed =>
    /\ HasRecord(uploadHistory, RandomUUID(1))
    /\ ~HasRecord(uploadHistory, panel.id)

\* ------------------------------ thumbnails loaded side by side (C37)
\* getThumbnailDataUrl runs for several keys at once: nothing expires and
\* nothing is cleared meanwhile, and the cache never holds MAX_CACHE_SIZE
\* entries.
ConcurrentNext ==
  \E v \in Surfaces :
    \/ \E key \in ThumbKeys : GetCachedThumbnail(v, key)
    \/ GetCachedThumbnailSet(v)
    \/ ThumbnailShown(v)
    \/ FetchThumbnailFromApi(v)
    \/ CacheThumbnail(v)
    \/ CacheThumbnailSet(v)

\* Nothing is cached yet, or one thumbnail of an earlier load is.
ConcurrentInit == ViewInit({<< >>, StoredInTurn(1)})

ConcurrentSpec == ConcurrentInit /\ [][ConcurrentNext]_vars

\* No getThumbnailDataUrl call is running.
AllCompleted == \A v \in Surfaces : viewer[v] = InitViewer

\* The thumbnail of key was fetched and the write of its put was accepted.
PutWritten(key) == putAt.thumbnail[key] # Never

\* C37: once every concurrent getThumbnailDataUrl call has completed, every
\* thumbnail that was fetched and put is in the thumbnail cache.
C37_ConcurrentPutsAllKept ==
  AllCompleted => \A key \in ThumbKeys : PutWritten(key) => Has(thumbnailCache, key)

\* --------------------------- a logout against work in flight (C38)
\* handleLogout has not begun, or the user has authorized again.
BeforeLogout == ~isManuallyLoggedOut /\ app.pc \notin LogoutLabels

\* The running job is inside its album step, with its history append to
\* come, or a getThumbnailDataUrl call is running.
InFlight ==
  \/ pc[1] \in {"getOrCreateMemePhotoAlbum", "albumSet"}
  \/ viewer["popup"] # InitViewer

\* handleLogout has not been called yet.
FirstLogout == \A r \in silentRequests : r.by # "handleLogout"

\* One handleLogout and, begun before it, one upload job or one
\* getThumbnailDataUrl call of the popup; the job is submitted only while
\* no thumbnail has been stored, the logout begins while one of the two
\* is under way.
LogoutRaceNext ==
  \/ InFlight /\ FirstLogout /\ HandleLogout
  \/ LogoutRevoke
  \/ LogoutClearTokens
  \/ LogoutClearProfile
  \/ LogoutClearThumbnails
  \/ LogoutClearAlbums
  \/ LogoutClearHistory
  \/ LogoutRemoveAlbum
  \/ LogoutSetFlag
  \/ BeforeLogout /\ viewer["popup"] = InitViewer /\ ~PutWritten(MAX_CACHE_SIZE) /\ OnClicked(1)
  \/ Download(1, {FetchResult("response", TRUE, MAX_FILE_SIZE, "image/png")})
  \/ JobStep(1)
  \/ BeforeLogout /\ pc[1] = "idle" /\ GetCachedThumbnail("popup", MAX_CACHE_SIZE)
  \/ GetCachedThumbnailSet("popup")
  \/ ThumbnailShown("popup")
  \/ FetchThumbnailFromApi("popup")
  \/ CacheThumbnail("popup")
  \/ CacheThumbnailSet("popup")

\* The popup is open and the user authorized: checkAuthStatus has got the
\* first token, the store holds what earlier use left.
LogoutRaceInit ==
  /\ uploadQueue = 0
  /\ prev = [j \in Jobs |-> 0]
  /\ link = [j \in Jobs |-> "pending"]
  /\ pc = [j \in Jobs |-> "idle"]
  /\ loc = [j \in Jobs |-> InitLoc]
  /\ calls = [j \in Jobs |-> <<>>]
  /\ toasts = [j \in Jobs |-> <<>>]
  /\ started = <<>>
  /\ outcome = [j \in Jobs |-> "none"]
  /\ cachedAuthToken = 1
  /\ minted = 1
  /\ selectedAlbumId = StaleAlbumId
  /\ uploadHistory = << EarlierRecord >>
  /\ isManuallyLoggedOut = FALSE
  /\ cached = CacheKeys
  /\ app = [InitApp EXCEPT !.pc = "idle", !.isAuthorized = TRUE]
  /\ silentRequests = {}
  /\ panel = InitPanel
  /\ ViewAtRest

LogoutRaceSpec == LogoutRaceInit /\ [][LogoutRaceNext]_vars

\* C38: once handleLogout has finished, and until the user authorizes
\* again, nothing that was in flight puts the thumbnail cache,
\* uploadHistory or selectedAlbumId back into the store.
C38_NothingComesBackAfterLogout ==
  [][isManuallyLoggedOut /\ isManuallyLoggedOut' =>
       /\ thumbnailCache = << >> => thumbnailCache' = << >>
       /\ uploadHistory = << >> => uploadHistory' = << >>
       /\ selectedAlbumId = NoAlbum => selectedAlbumId' = NoAlbum]_vars

\* ------------------------------------ every job comes to an end (C39)
\* What the download of the image comes to.
ChainResponses ==
  { FetchResult("TypeError", FALSE, 0, ""),
    FetchResult("response", TRUE, MAX_FILE_SIZE, "image/png") }

\* Every await of a job's activation returns or fails in the end, and the
\* continuations of a settled promise are run: while a step of some job
\* can be taken, one is.  Clicks are the user's and under no such condition.
ChainFairness == WF_vars(\E j \in Jobs : Download(j, ChainResponses) \/ JobStep(j))

\* The jobs of the queue, each with an image that cannot be fetched or a
\* PNG image.
ChainNext ==
  \E j \in Jobs :
    \/ OnClicked(j)
    \/ Download(j, ChainResponses)
    \/ JobStep(j)

ChainSpec == Init /\ [][ChainNext]_vars /\ ChainFairness

\* Job j was submitted: its link hangs on the queue.
Submitted(j) == pc[j] # "idle"

\* Job j has entered handleImageUpload.
Started(j) == \E i \in DOMAIN started : started[i] = j

\* C39: every submitted job reaches Done or Failed in the end, and every
\* job submitted behind another enters handleImageUpload in the end.
C39_EveryJobEndsAndTheNextStarts ==
  \A j \in Jobs :
    Submitted(j) ~> /\ outcome[j] \in {"Done", "Failed"}
                    /\ prev[j] # 0 => Started(j)

\* A job submitted behind another has started and both have ended.
C39_Witness ==
  \E j \in Jobs :
    /\ prev[j] # 0 /\ Started(j)
    /\ outcome[j] \in {"Done", "Failed"} /\ outcome[prev[j]] \in {"Done", "Failed"}

\* ----------------------------------- the thumbnail error toast (C40)
DEBOUNCE_DELAY == 500

MAX_VISIBLE_TOASTS == 3

\* showToast's default duration and the length of its hiding transition.
ToastDuration == 3000

HidingDelay == 300

\* The page's clock goes in steps of ClockStep milliseconds, a fifth of the
\* debounce delay and a divisor of the life of a toast, MaxTicks of them,
\* and reportThumbnailError is called MaxReports times at most, in the
\* first ReportTicks steps.
ClockStep == DEBOUNCE_DELAY \div 5

MaxTicks == 40

MaxReports == 2

ReportTicks == 15

\* debounceTimer === null
NoTimer == 0 - 1

\* The text of the aggregated toast: the digits of the count and the rest.
ThumbnailMessage(errorCount) ==
  IF errorCount = 1 THEN << "Failed to load thumbnail" >>
  ELSE Decimal(errorCount) \o << " thumbnails failed to load" >>

\* toast.ts showToast: nothing when a toast with the message is in the
\* container; otherwise the oldest toasts make room and the new one is
\* appended, to be taken out after its duration and its transition.
ToastShows(container, message) ==
  \A i \in DOMAIN container : container[i].message # message

RECURSIVE MakeRoom(_)
MakeRoom(container) ==
  IF Len(container) >= MAX_VISIBLE_TOASTS THEN MakeRoom(Tail(container)) ELSE container

ShowToast(a, message) ==
  [a EXCEPT
     !.shown = Append(@, [at |-> a.clock, message |-> message,
                          displayed |-> ToastShows(a.container, message)]),
     !.container =
        IF ToastShows(a.container, message)
          THEN Append(MakeRoom(a.container),
                      [message |-> message,
                       removeAt |-> a.clock + ToastDuration + HidingDelay])
          ELSE a.container]

\* Variant of the timer's callback: the count is kept.
DebounceKeepsCount(a) ==
  [(IF a.errorCount >= 1 THEN ShowToast(a, ThumbnailMessage(a.errorCount)) ELSE a)
     EXCEPT !.debounceTimer = NoTimer]

\* The callback of the debounce timer.
DebounceCallback(a) ==
  [(IF a.errorCount >= 1 THEN ShowToast(a, ThumbnailMessage(a.errorCount)) ELSE a)
     EXCEPT !.errorCount = 0, !.debounceTimer = NoTimer]

\* A timer of the page is due.
TimerDue ==
  \/ aggregator.debounceTimer = aggregator.clock
  \/ \E i \in DOMAIN aggregator.container : aggregator.container[i].removeAt = aggregator.clock

AggregatorFrame ==
  UNCHANGED << thumbnailCache, albumCache, now, viewer, titles, putAt, cached, surface,
               jobVars, cachedAuthToken, minted, selectedAlbumId, uploadHistory,
               isManuallyLoggedOut, app, silentRequests, panel, image, credential,
               display >>

\* reportThumbnailError: count, and start the window again.
ReportThumbnailError ==
  /\ Len(aggregator.reports) < MaxReports
  /\ aggregator.clock <= ReportTicks * ClockStep
  /\ ~TimerDue
  /\ aggregator' = [aggregator EXCEPT
                      !.errorCount = @ + 1,
                      !.debounceTimer = aggregator.clock + DEBOUNCE_DELAY,
                      !.reports = Append(@, aggregator.clock)]
  /\ AggregatorFrame

\* The debounce timer fires.
DebounceFires ==
  /\ aggregator.debounceTimer = aggregator.clock
  /\ aggregator' = DebounceCallback(aggregator)
  /\ AggregatorFrame

\* A toast's timers have run: the element leaves the container.
ToastRemoved ==
  /\ \E i \in DOMAIN aggregator.container : aggregator.container[i].removeAt = aggregator.clock
  /\ aggregator' = [aggregator EXCEPT
                      !.container = SelectSeq(@, LAMBDA t : t.removeAt # aggregator.clock)]
  /\ AggregatorFrame

\* UploadHistory unmounts: cleanupThumbnailErrorAggregator.  Thumbnail
\* loads that are under way may still report afterwards.
CleanupThumbnailErrorAggregator ==
  /\ aggregator.mounted
  /\ ~TimerDue
  /\ aggregator' = [aggregator EXCEPT !.mounted = FALSE, !.errorCount = 0,
                                      !.debounceTimer = NoTimer,
                                      !.cleanedAt = aggregator.clock]
  /\ AggregatorFrame

\* Time passes once the timers that are due have run.
ClockTick ==
  /\ ~TimerDue
  /\ aggregator.clock < MaxTicks * ClockStep
  /\ aggregator' = [aggregator EXCEPT !.clock = @ + ClockStep]
  /\ AggregatorFrame

AggregatorNext ==
  \/ ReportThumbnailError
  \/ DebounceFires
  \/ ToastRemoved
  \/ CleanupThumbnailErrorAggregator
  \/ ClockTick

AggregatorInit == Init /\ selectedAlbumId = NoAlbum

AggregatorSpec == AggregatorInit /\ [][AggregatorNext]_vars

\* The bursts of reportThumbnailError calls: the i-th call ends one when
\* the next call, if any, comes DEBOUNCE_DELAY or more after it.
BurstEnd(i) ==
  \/ i = Len(aggregator.reports)
  \/ aggregator.reports[i + 1] - aggregator.reports[i] >= DEBOUNCE_DELAY

\* The calls k..i follow one another by less than DEBOUNCE_DELAY.
InBurst(k, i) ==
  \A n \in k..(i - 1) : aggregator.reports[n + 1] - aggregator.reports[n] < DEBOUNCE_DELAY

BurstStart(i) == CHOOSE k \in 1..i : InBurst(k, i) /\ (k = 1 \/ ~InBurst(k - 1, i))

BurstSize(i) == i - BurstStart(i) + 1

\* The burst that the i-th call ends is over: DEBOUNCE_DELAY has passed
\* since that call and the timer, if it was still pending, has run.
BurstOver(i) ==
  /\ BurstEnd(i)
  /\ \/ aggregator.clock > aggregator.reports[i] + DEBOUNCE_DELAY
     \/ /\ aggregator.clock = aggregator.reports[i] + DEBOUNCE_DELAY
        /\ aggregator.debounceTimer # aggregator.clock

\* The showToast calls made after the first call of the burst and until
\* DEBOUNCE_DELAY after its last.
CallsOf(i) ==
  {n \in DOMAIN aggregator.shown :
     /\ aggregator.shown[n].at > aggregator.reports[BurstStart(i)]
     /\ aggregator.shown[n].at <= aggregator.reports[i] + DEBOUNCE_DELAY}

\* The toasts that appeared among them.
ToastsOf(i) == {n \in CallsOf(i) : aggregator.shown[n].displayed}

\* The toast of the burst: DEBOUNCE_DELAY after the last call, with the
\* count of the burst.
ToastOfBurst(i, n) ==
  /\ aggregator.shown[n].at = aggregator.reports[i] + DEBOUNCE_DELAY
  /\ aggregator.shown[n].message = ThumbnailMessage(BurstSize(i))

\* Nothing of the aggregator is left after the last burst.
AtRestAfter(i) ==
  i = Len(aggregator.reports) =>
    aggregator.errorCount = 0 /\ aggregator.debounceTimer = NoTimer

\* cleanupThumbnailErrorAggregator ran between the first call of the burst
\* and the instant its timer was due.
CleanedDuring(i) ==
  /\ aggregator.cleanedAt >= aggregator.reports[BurstStart(i)]
  /\ aggregator.cleanedAt < aggregator.reports[i] + DEBOUNCE_DELAY

\* The toast of an earlier call with the same text was shown less than its
\* lifetime before call n, or more than that, or never.
SameTextWithin(n, m) ==
  /\ m < n
  /\ aggregator.shown[m].displayed
  /\ aggregator.shown[m].message = aggregator.shown[n].message
  /\ aggregator.shown[n].at - aggregator.shown[m].at < ToastDuration + HidingDelay

SameTextUntil(n, m) ==
  /\ m < n
  /\ aggregator.shown[m].displayed
  /\ aggregator.shown[m].message = aggregator.shown[n].message
  /\ aggregator.shown[n].at - aggregator.shown[m].at <= ToastDuration + HidingDelay

\* C40 as stated: every burst of N calls is followed by exactly one toast,
\* DEBOUNCE_DELAY after its last call and with the count N; then errorCount
\* is 0 and no timer is pending.
C40_EveryBurstShowsOneToast ==
  \A i \in DOMAIN aggregator.reports :
    BurstOver(i) =>
      /\ \E n \in ToastsOf(i) : ToastsOf(i) = {n} /\ ToastOfBurst(i, n)
      /\ AtRestAfter(i)

\* C40, amended: every burst of N calls during which the aggregator is not
\* cleaned up is followed by exactly one showToast call, DEBOUNCE_DELAY
\* after its last call and with the count N; the toast appears unless one
\* with the same text is still in the container; then errorCount is 0 and
\* no timer is pending.
C40_EveryBurstCallsShowToastOnce ==
  \A i \in DOMAIN aggregator.reports :
    BurstOver(i) /\ ~CleanedDuring(i) =>
      /\ \E n \in CallsOf(i) :
           /\ CallsOf(i) = {n}
           /\ ToastOfBurst(i, n)
           /\ (\E m \in DOMAIN aggregator.shown : SameTextWithin(n, m))
                => ~aggregator.shown[n].displayed
           /\ ~(\E m \in DOMAIN aggregator.shown : SameTextUntil(n, m))
                => aggregator.shown[n].displayed
      /\ AtRestAfter(i)

\* A burst of two calls is over and its toast has appeared.
C40_Witness ==
  \E i \in DOMAIN aggregator.reports :
    /\ BurstOver(i) /\ ~CleanedDuring(i) /\ BurstSize(i) = 2
    /\ \E n \in ToastsOf(i) : ToastOfBurst(i, n)
====
